---- MODULE Spec2Model ----
(***************************************************************************)
(* The optimized documentation pipeline of docgenius                       *)
(* (src/src/lib/optimized-documentation-service.ts): file classification,  *)
(* prioritization, per-file analysis in concurrent batches, compilation    *)
(* of the project document, and the progress events sent to the caller's   *)
(* sink; the POST and GET handlers that call the pipeline                  *)
(* (src/src/app/api/generate-documentation-optimized/route.ts) and the     *)
(* store they save to (src/src/lib/database.ts).                           *)
(*                                                                         *)
(* Strings that the code inspects character by character (paths) are       *)
(* sequences of one-character strings; file contents are sequences of      *)
(* byte values; progress values are exact rationals [n / d] (the code's    *)
(* doubles order the same way for every value the pipeline produces).      *)
(***************************************************************************)
EXTENDS Integers, Sequences, FiniteSets, TLC

\* ------------------------------------------------------------------ bounds
\* Longest short input list (it crosses one batch boundary).
MaxFiles == 4
\* Longest long input list (above the file cap).
MaxCapFiles == 32

\* ------------------------------------------------------- program constants
batchSize == 3
FileCap == 30
StubComplexity == 5
HashInputLen == 1000
HashLen == 16
TruncateAt == 8000

\* ----------------------------------------------------------------- strings
Upper == {"A","B","C","D","E","F","G","H","I","J","K","L","M","N","O","P","Q","R","S","T","U","V","W","X","Y","Z"}
LowerOf == "A" :> "a" @@ "B" :> "b" @@ "C" :> "c" @@ "D" :> "d" @@ "E" :> "e" @@ "F" :> "f" @@ "G" :> "g" @@ "H" :> "h" @@ "I" :> "i" @@ "J" :> "j" @@ "K" :> "k" @@ "L" :> "l" @@ "M" :> "m" @@ "N" :> "n" @@ "O" :> "o" @@ "P" :> "p" @@ "Q" :> "q" @@ "R" :> "r" @@ "S" :> "s" @@ "T" :> "t" @@ "U" :> "u" @@ "V" :> "v" @@ "W" :> "w" @@ "X" :> "x" @@ "Y" :> "y" @@ "Z" :> "z"
Digit == {"0","1","2","3","4","5","6","7","8","9"}
Alnum == Upper \cup {LowerOf[c] : c \in Upper} \cup Digit

\* String.prototype.toLowerCase
toLowerCase(s) == [k \in 1..Len(s) |-> IF s[k] \in Upper THEN LowerOf[s[k]] ELSE s[k]]

\* String.prototype.includes
includes(s, pat) == \E k \in 0..(Len(s) - Len(pat)) : SubSeq(s, k + 1, k + Len(pat)) = pat

\* Array.prototype.slice(0, n)
Take(s, n) == SubSeq(s, 1, IF Len(s) < n THEN Len(s) ELSE n)

Min(a, b) == IF a < b THEN a ELSE b

\* path.split('/').pop() || path
BaseName(path) ==
    LET slashes == {k \in 1..Len(path) : path[k] = "/"}
        last == IF slashes = {} THEN 0 ELSE CHOOSE k \in slashes : \A m \in slashes : m <= k
    IN  IF last = Len(path) THEN path ELSE SubSeq(path, last + 1, Len(path))

\* ------------------------------------------------------------------- files
PathIndex == <<"s","r","c","/","I","n","d","e","x",".","t","s">>
PathApi == <<"s","r","c","/","a","p","i","/","u","s","e","r","s",".","t","s">>
PathNav == <<"s","r","c","/","c","o","m","p","o","n","e","n","t","s","/","N","a","v",".","t","s","x">>
PathPkg == <<"p","a","c","k","a","g","e",".","j","s","o","n">>
PathDb == <<"s","r","c","/","l","i","b","/","d","b",".","t","s">>
PathReadme == <<"R","E","A","D","M","E",".","m","d">>
\* A path that no input file has.
GhostPath == <<"g","h","o","s","t",".","t","s">>

\* The text {"dependencies":{"react":"18"}}
ReactManifest ==
    <<123, 34, 100, 101, 112, 101, 110, 100, 101, 110, 99, 105, 101, 115, 34, 58, 123, 34,
      114, 101, 97, 99, 116, 34, 58, 34, 49, 56, 34, 125, 125>>

\* GitHubFile as the enumerator builds it (size and sha play no part in the
\* pipeline's decisions)
GitHubFile(path, content, language) ==
    [name |-> BaseName(path), path |-> path, content |-> content, language |-> language]

\* Two orders of the same files: lowest category weight first, and mixed.
BaseOrders ==
    { << GitHubFile(PathReadme, <<104, 105>>, "Markdown"),
         GitHubFile(PathPkg, ReactManifest, "JSON"),
         GitHubFile(PathDb, <<101, 120, 112, 111, 114, 116, 32, 100, 101, 102, 97, 117, 108, 116, 32, 49>>, "TypeScript"),
         GitHubFile(PathApi, <<>>, "TypeScript"),
         GitHubFile(PathIndex, <<105>>, "TypeScript"),
         GitHubFile(PathNav, <<105>>, "TypeScript") >>,
      << GitHubFile(PathApi, <<>>, "TypeScript"),
         GitHubFile(PathNav, <<105>>, "TypeScript"),
         GitHubFile(PathIndex, <<105>>, "TypeScript"),
         GitHubFile(PathReadme, <<104, 105>>, "Markdown"),
         GitHubFile(PathDb, <<101, 120, 112, 111, 114, 116, 32, 100, 101, 102, 97, 117, 108, 116, 32, 49>>, "TypeScript"),
         GitHubFile(PathPkg, <<123, 125>>, "JSON") >> }

\* The input lists of Spec: every prefix, up to MaxFiles files, of a base order.
InputLists == { Take(o, n) : o \in BaseOrders, n \in 0..MaxFiles }

\* A file object without content, as a caller outside the type checker can
\* pass it (the repository's own enumerator always sets a string).
NoContent(f) == [name |-> f.name, path |-> f.path, language |-> f.language]

\* The input lists of SpecUntyped: a short list with one such file in it.
UntypedLists ==
    UNION { { [k \in 1..Len(l) |-> IF k = j THEN NoContent(l[k]) ELSE l[k]] : j \in 1..Len(l) }
            : l \in InputLists }

\* A content of n characters.
LongContent(n) == [k \in 1..n |-> 97 + (k % 7)]

\* The input lists of SpecLongContent: a short list in which one file has a
\* content one character below, at, or one character above the ceiling.
LongLists ==
    UNION { { [k \in 1..Len(l) |-> IF k = j THEN GitHubFile(l[k].path, LongContent(n), l[k].language)
                                             ELSE l[k]]
              : j \in 1..Len(l), n \in (TruncateAt - 1)..(TruncateAt + 1) }
            : l \in InputLists }

\* Input lists longer than the cap: file k of pattern p lies in directory
\* number ((k * p) % 6) + 1, so the patterns mix the six categories (p = 1),
\* three of them (p = 2), or use a single one (p = 6); pattern 5 takes the
\* directories of MixedDirs, whose paths have upper-case letters and match
\* the patterns of several categories.
CapDirs ==
    << <<"d","o","c","s","/">>,
       <<"c","o","n","f","i","g","/">>,
       <<"s","r","c","/","u","t","i","l","s","/">>,
       <<"s","r","c","/","u","i","/">>,
       <<"s","r","c","/","a","p","i","/">>,
       <<"s","r","c","/","m","a","i","n",".">> >>
MixedDirs ==
    << <<"S","R","C","/","A","P","I","/","I","n","d","e","x",".">>,
       <<"s","r","c","/","a","p","i","/","c","o","n","f","i","g","/">>,
       <<"s","r","c","/","u","i","/","l","i","b","/">>,
       <<"s","r","c","/","l","i","b","/","c","o","n","f","i","g","/">>,
       <<"n","e","x","t",".","c","o","n","f","i","g",".">>,
       <<"D","O","C","S","/">> >>
DigitOf == <<"0","1","2","3","4","5","6","7","8","9">>
CapPath(p, k) ==
    (IF p = 5 THEN MixedDirs ELSE CapDirs)[((k * p) % 6) + 1] \o <<"f", DigitOf[(k \div 10) + 1], DigitOf[(k % 10) + 1], ".", "t", "s">>
CapPatterns == {1, 2, 5, 6}
CapSizes == (FileCap - 1)..MaxCapFiles
CapLists ==
    { [k \in 1..n |-> GitHubFile(CapPath(p, k), <<105>>, "TypeScript")] : p \in CapPatterns, n \in CapSizes }

\* ------------------------------------------------- FileCollectorAgent
Categories == {"core", "api", "components", "config", "utils", "other"}

\* A plausible slip of determineCategory: the API patterns are tested first.
determineCategoryApiFirst(file) ==
    LET path == toLowerCase(file.path) IN
    IF includes(path, <<"/","a","p","i","/">>) \/ includes(path, <<"/","r","o","u","t","e","s","/">>)
          \/ includes(path, <<"r","o","u","t","e",".">>) THEN "api"
    ELSE IF includes(path, <<"m","a","i","n",".">>) \/ includes(path, <<"i","n","d","e","x",".">>)
          \/ includes(path, <<"a","p","p",".">>) THEN "core"
    ELSE IF includes(path, <<"/","c","o","m","p","o","n","e","n","t","s","/">>)
          \/ includes(path, <<"/","u","i","/">>) THEN "components"
    ELSE IF includes(path, <<"c","o","n","f","i","g">>) \/ includes(path, <<".","j","s","o","n">>)
          \/ includes(path, <<".","y","a","m","l">>) THEN "config"
    ELSE IF includes(path, <<"/","u","t","i","l","s","/">>) \/ includes(path, <<"/","l","i","b","/">>)
          \/ includes(path, <<"/","h","e","l","p","e","r","s","/">>) THEN "utils"
    ELSE "other"

determineCategory(file) ==
    LET path == toLowerCase(file.path) IN
    IF includes(path, <<"m","a","i","n",".">>) \/ includes(path, <<"i","n","d","e","x",".">>)
          \/ includes(path, <<"a","p","p",".">>) THEN "core"
    ELSE IF includes(path, <<"/","a","p","i","/">>) \/ includes(path, <<"/","r","o","u","t","e","s","/">>)
          \/ includes(path, <<"r","o","u","t","e",".">>) THEN "api"
    ELSE IF includes(path, <<"/","c","o","m","p","o","n","e","n","t","s","/">>)
          \/ includes(path, <<"/","u","i","/">>) THEN "components"
    ELSE IF includes(path, <<"c","o","n","f","i","g">>) \/ includes(path, <<".","j","s","o","n">>)
          \/ includes(path, <<".","y","a","m","l">>) THEN "config"
    ELSE IF includes(path, <<"/","u","t","i","l","s","/">>) \/ includes(path, <<"/","l","i","b","/">>)
          \/ includes(path, <<"/","h","e","l","p","e","r","s","/">>) THEN "utils"
    ELSE "other"

\* categorizeFiles: a Map with a key for each category that has a file, the
\* files of a category in input order.
categorizeFiles(fs) ==
    [c \in {determineCategory(fs[k]) : k \in 1..Len(fs)} |->
        SelectSeq(fs, LAMBDA f : determineCategory(f) = c)]

priorityMap == [core |-> 100, api |-> 80, components |-> 60, utils |-> 40, config |-> 20, other |-> 10]

\* The comparator handed to Array.prototype.sort: negative when a goes first.
compareFiles(a, b) == priorityMap[determineCategory(b)] - priorityMap[determineCategory(a)]

\* A plausible slip of the sort: an unstable one, which puts an element ahead
\* of the elements it compares equal to.
RECURSIVE InsertSortedUnstable(_, _)
InsertSortedUnstable(sorted, f) ==
    IF sorted = <<>> THEN <<f>>
    ELSE IF compareFiles(sorted[Len(sorted)], f) < 0 THEN Append(sorted, f)
    ELSE Append(InsertSortedUnstable(SubSeq(sorted, 1, Len(sorted) - 1), f), sorted[Len(sorted)])

\* Array.prototype.sort is stable: an element is placed after every element
\* already in place that does not compare greater than it.
RECURSIVE InsertSorted(_, _)
InsertSorted(sorted, f) ==
    IF sorted = <<>> THEN <<f>>
    ELSE IF compareFiles(sorted[Len(sorted)], f) <= 0 THEN Append(sorted, f)
    ELSE Append(InsertSorted(SubSeq(sorted, 1, Len(sorted) - 1), f), sorted[Len(sorted)])

RECURSIVE SortFrom(_, _)
SortFrom(sorted, rest) ==
    IF rest = <<>> THEN sorted ELSE SortFrom(InsertSorted(sorted, Head(rest)), Tail(rest))

prioritizeFiles(fs) == SortFrom(<<>>, fs)

\* --------------------------------------------------- FileAnalyzerAgent
\* Buffer.from(s).toString('base64'): three bytes give four sextets; 64 is
\* the padding character '='.
Base64(bytes) ==
    LET n == Len(bytes)
        at(k) == IF k <= n THEN bytes[k] ELSE 0
    IN  [j \in 1..(4 * ((n + 2) \div 3)) |->
            LET g == (j - 1) \div 4
                b1 == at(3 * g + 1)
                b2 == at(3 * g + 2)
                b3 == at(3 * g + 3)
            IN  CASE (j - 1) % 4 = 0 -> b1 \div 4
                  [] (j - 1) % 4 = 1 -> (b1 % 4) * 16 + b2 \div 16
                  [] (j - 1) % 4 = 2 -> IF 3 * g + 2 > n THEN 64 ELSE (b2 % 16) * 4 + b3 \div 64
                  [] OTHER -> IF 3 * g + 3 > n THEN 64 ELSE b3 % 64]

\* path.replace(/[^a-zA-Z0-9]/g, '_')
SanitizePath(path) == [k \in 1..Len(path) |-> IF path[k] \in Alnum THEN path[k] ELSE "_"]

\* `file_${...}_${contentHash}`, kept as its three parts
generateCacheKey(file) ==
    << "file", SanitizePath(file.path), Take(Base64(Take(file.content, HashInputLen)), HashLen) >>

\* The text '\n... (truncated)'
TruncationMarker == <<10, 46, 46, 46, 32, 40, 116, 114, 117, 110, 99, 97, 116, 101, 100, 41>>

\* A plausible slip of buildFileAnalysisPrompt: a content of exactly the
\* ceiling is cut and marked too.
buildFileAnalysisPromptInclusive(file, context) ==
    [language |-> file.language, name |-> context.name, path |-> file.path,
     framework |-> context.framework,
     content |-> IF Len(file.content) >= TruncateAt
                 THEN SubSeq(file.content, 1, TruncateAt) \o TruncationMarker
                 ELSE file.content]

\* buildFileAnalysisPrompt: the prompt, kept as the values its template is
\* filled with.
buildFileAnalysisPrompt(file, context) ==
    [language |-> file.language, name |-> context.name, path |-> file.path,
     framework |-> context.framework,
     content |-> IF Len(file.content) > TruncateAt
                 THEN SubSeq(file.content, 1, TruncateAt) \o TruncationMarker
                 ELSE file.content]

\* The answers of the completion service to a per-file analysis call: the
\* call rejects, the message has no content, the text is no JSON, the text
\* is the JSON value null, or the text is a JSON object.  A JSON object is a
\* function from the keys it has to their values; nothing in the code
\* checks it against the FileAnalysis shape.
ObjCritical(file) ==
    [filePath |-> file.path, summary |-> <<"summary">>, importance |-> "critical",
     complexity |-> 2, functions |-> <<"run">>, classes |-> <<>>, dependencies |-> <<"react">>]
ObjHigh(file) ==
    [filePath |-> file.path, summary |-> <<"summary">>, importance |-> "high",
     complexity |-> 7, functions |-> <<>>, classes |-> <<"Store">>, dependencies |-> <<>>]
ObjForeign(file) ==
    [filePath |-> GhostPath, summary |-> <<"summary">>, importance |-> "urgent",
     complexity |-> 11, functions |-> <<>>, classes |-> <<>>, dependencies |-> <<>>,
     cacheKey |-> <<"file", GhostPath, <<>>>>]
ObjNoImportance(file) ==
    [filePath |-> file.path, summary |-> <<"summary">>,
     complexity |-> 5, functions |-> <<>>, classes |-> <<>>, dependencies |-> <<>>]
ObjNoPath(file) ==
    [summary |-> <<"summary">>, importance |-> "low",
     complexity |-> 1, functions |-> <<>>, classes |-> <<>>, dependencies |-> <<>>]

JsonObjects(file) ==
    {ObjCritical(file), ObjHigh(file), ObjForeign(file), ObjNoImportance(file), ObjNoPath(file)}

Failures == {[kind |-> "error"], [kind |-> "empty"], [kind |-> "invalid"], [kind |-> "null"]}

\* What the completion service may answer for a file: anything ("any"), or
\* one fixed answer per file (the scripted services of the long lists).
Services == {"good", "down", "partial", "pathless"}
Responses(svc, file) ==
    CASE svc = "any" -> Failures \cup {[kind |-> "object", obj |-> o] : o \in JsonObjects(file)}
      [] svc = "good" -> {[kind |-> "object", obj |-> ObjCritical(file)]}
      [] svc = "down" -> {[kind |-> "error"]}
      [] svc = "partial" -> {[kind |-> "object", obj |-> ObjNoImportance(file)]}
      [] svc = "pathless" -> {[kind |-> "object", obj |-> ObjNoPath(file)]}

Has(o, key) == key \in DOMAIN o

\* The fallback analysis of the catch block.
StubAnalysis(file, cacheKey) ==
    [filePath |-> file.path, summary |-> <<file.language, "file - analysis failed">>,
     importance |-> "low", complexity |-> StubComplexity,
     functions |-> <<>>, classes |-> <<>>, dependencies |-> <<>>, cacheKey |-> cacheKey]

\* Plausible slips of analyzeFile: JSON.parse outside the try block, and a
\* catch block that rethrows.
analyzeFileParseOutsideTry(file, resp) ==
    LET cacheKey == generateCacheKey(file) IN
    IF resp.kind = "invalid" THEN [status |-> "rejected"]
    ELSE IF resp.kind = "object"
    THEN [status |-> "fulfilled", value |-> ("cacheKey" :> cacheKey) @@ resp.obj]
    ELSE [status |-> "fulfilled", value |-> StubAnalysis(file, cacheKey)]

analyzeFileRethrows(file, resp) ==
    LET cacheKey == generateCacheKey(file) IN
    IF resp.kind = "object"
    THEN [status |-> "fulfilled", value |-> ("cacheKey" :> cacheKey) @@ resp.obj]
    ELSE [status |-> "rejected"]

\* A plausible slip of analyzeFile: a cacheKey in the parsed object is kept.
analyzeFileKeepsParsedKey(file, resp) ==
    LET cacheKey == generateCacheKey(file) IN
    IF resp.kind = "object"
    THEN [status |-> "fulfilled", value |-> resp.obj @@ ("cacheKey" :> cacheKey)]
    ELSE [status |-> "fulfilled", value |-> StubAnalysis(file, cacheKey)]

\* analyzeFile from the answer of its completion call on: the settled
\* state of the promise it returned.  (The cache always misses; the elapsed
\* analysisTime is left out.)
analyzeFile(file, resp) ==
    LET cacheKey == generateCacheKey(file)
        threw == \/ resp.kind = "error"      \* create() rejected
                 \/ resp.kind = "empty"      \* throw new Error('No response content')
                 \/ resp.kind = "invalid"    \* JSON.parse throws SyntaxError
                 \/ resp.kind = "null"       \* analysis.cacheKey = ... on null throws
    IN  IF threw
        THEN [status |-> "fulfilled", value |-> StubAnalysis(file, cacheKey)]
        ELSE [status |-> "fulfilled", value |-> ("cacheKey" :> cacheKey) @@ resp.obj]

\* ------------------------------------------- DocumentationCompilerAgent
\* groupAnalyses evaluates a.filePath.includes(...) on every analysis: a
\* TypeError when an analysis has no filePath.
groupAnalysesThrows(an) == \E k \in 1..Len(an) : ~Has(an[k], "filePath")

groupAnalyses(an) ==
    [critical |-> SelectSeq(an, LAMBDA a : Has(a, "importance") /\ a.importance = "critical"),
     high |-> SelectSeq(an, LAMBDA a : Has(a, "importance") /\ a.importance = "high"),
     api |-> SelectSeq(an, LAMBDA a : includes(a.filePath, <<"/","a","p","i","/">>)
                                        \/ includes(a.filePath, <<"r","o","u","t","e",".">>))]

\* importance.charAt(0).toUpperCase() + importance.slice(1), on the
\* importance strings of the model
Capitalize ==
    [critical |-> "Critical", high |-> "High", medium |-> "Medium", low |-> "Low", urgent |-> "Urgent"]

\* convertAnalysesToDocs evaluates analysis.importance.charAt(0): a TypeError
\* when an analysis has no importance.
convertAnalysesToDocsThrows(an) == \E k \in 1..Len(an) : ~Has(an[k], "importance")

\* docs[analysis.filePath] = {...} for each analysis in order: a later
\* analysis with the same filePath overwrites the earlier entry.
convertAnalysesToDocs(an) ==
    [p \in {an[k].filePath : k \in 1..Len(an)} |->
        LET last == CHOOSE k \in 1..Len(an) :
                        /\ an[k].filePath = p
                        /\ \A m \in (k + 1)..Len(an) : an[m].filePath # p
            a == an[last]
        IN  [summary |-> a.summary,
             importance |-> Capitalize[a.importance],
             keyFunctions |-> a.functions,
             classes |-> a.classes,
             dependencies |-> a.dependencies,
             complexity |-> a.complexity]]

\* analyses.filter(critical or high).slice(0, 8).map(...).join(...), or the
\* default sentence when the joined text is empty; an entry is kept as the
\* four values its text is made of.
KeyComponentsShown == 8
generateKeyComponents(an) ==
    LET key == SelectSeq(an, LAMBDA a : Has(a, "importance") /\ a.importance \in {"critical", "high"})
        shown == Take(key, KeyComponentsShown)
    IN  IF shown = <<>> THEN <<"Key components analysis not available.">>
        ELSE [k \in 1..Len(shown) |->
                 [filePath |-> shown[k].filePath,
                  summary |-> IF Has(shown[k], "summary") THEN shown[k].summary ELSE "undefined",
                  importance |-> shown[k].importance,
                  complexity |-> IF Has(shown[k], "complexity") THEN shown[k].complexity ELSE "undefined"]]

\* JSON.parse of a package.json on the contents of the model: the two
\* manifests parse, every other content is no JSON (a SyntaxError), a file
\* without content gives JSON.parse(undefined), a SyntaxError too.
ParseManifest(file) ==
    IF ~Has(file, "content") THEN [ok |-> FALSE]
    ELSE IF file.content = ReactManifest THEN [ok |-> TRUE, dependencies |-> {"react"}]
    ELSE IF file.content = <<123, 125>> THEN [ok |-> TRUE, dependencies |-> {}]
    ELSE [ok |-> FALSE]

FrameworkOfDependency ==
    << <<"next", "Next.js">>, <<"react", "React">>, <<"vue", "Vue.js">>,
       <<"express", "Express.js">>, <<"fastify", "Fastify">>, <<"@nestjs/core", "NestJS">> >>

detectFramework(fs) ==
    LET manifests == SelectSeq(fs, LAMBDA f : f.name = <<"p","a","c","k","a","g","e",".","j","s","o","n">>)
        parsed == IF manifests = <<>> THEN [ok |-> FALSE] ELSE ParseManifest(manifests[1])
        known == IF parsed.ok
                 THEN {k \in 1..Len(FrameworkOfDependency) :
                          FrameworkOfDependency[k][1] \in parsed.dependencies}
                 ELSE {}
        pathHas(pat) == \E k \in 1..Len(fs) : includes(fs[k].path, pat)
    IN  IF known # {}
        THEN FrameworkOfDependency[CHOOSE k \in known : \A m \in known : k <= m][2]
        ELSE IF pathHas(<<"n","e","x","t",".","c","o","n","f","i","g">>) THEN "Next.js"
        ELSE IF pathHas(<<"v","i","t","e",".","c","o","n","f","i","g">>) THEN "Vite"
        ELSE IF pathHas(<<"n","u","x","t",".","c","o","n","f","i","g">>) THEN "Nuxt.js"
        ELSE "Unknown"

\* RepositoryInfo; a language of "" stands for null (both are falsy).
RepositoryInfos ==
    { [name |-> "docgenius", fullName |-> "yakoubeth/docgenius", language |-> "TypeScript"],
      [name |-> "notes", fullName |-> "octo/notes", language |-> ""] }

\* The ProjectContext handed to the Compiler.
ProjectContext(info, fs) ==
    [name |-> info.name,
     framework |-> detectFramework(fs),
     language |-> IF info.language = "" THEN "unknown" ELSE info.language]

\* The answers of the completion service to a synthesis call: the call
\* rejects, the message has no content, or it has a text.
SynthResponses ==
    {[kind |-> "error"], [kind |-> "empty"], [kind |-> "text", text |-> <<"text of the completion">>]}

generateOverview(criticalFiles, context, resp) ==
    IF Len(criticalFiles) = 0
    THEN <<context.name, "is a", context.framework, "application built with", context.language,
           ". This project provides functionality through a well-structured codebase with multiple components working together to deliver a cohesive user experience.">>
    ELSE IF resp.kind = "error"
    THEN <<context.name, "is a modern", context.framework,
           "application that provides robust functionality through a well-architected codebase.">>
    ELSE IF resp.kind = "empty"
    THEN <<context.name, "- A", context.framework, "application.">>
    ELSE resp.text

\* A plausible slip of generateArchitecture: the catch block returns the
\* default text of an empty message.
generateArchitectureDefaultOnError(highPriorityFiles, context, resp) ==
    IF resp.kind = "text" THEN resp.text ELSE <<"Architecture information not available.">>

generateArchitecture(highPriorityFiles, context, resp) ==
    IF resp.kind = "error"
    THEN <<context.name, "follows a modern", context.framework,
           "architecture with well-separated concerns and modular design.">>
    ELSE IF resp.kind = "empty"
    THEN <<"Architecture information not available.">>
    ELSE resp.text

\* generateApiReference: a fixed sentence, or a heading and one entry per API
\* file (file.functions || [])
generateApiReference(apiFiles) ==
    IF Len(apiFiles) = 0 THEN <<"No API endpoints found in this project.">>
    ELSE [heading |-> "## API Endpoints",
          entries |->
         [k \in 1..Len(apiFiles) |->
             [filePath |-> apiFiles[k].filePath,
              summary |-> IF Has(apiFiles[k], "summary") THEN apiFiles[k].summary ELSE "undefined",
              functions |-> IF Has(apiFiles[k], "functions") THEN apiFiles[k].functions ELSE <<>>]]]

\* analyses.reduce((sum, a) => sum + a.complexity, 0)
RECURSIVE SumComplexity(_)
SumComplexity(an) ==
    IF an = <<>> THEN 0 ELSE Head(an).complexity + SumComplexity(Tail(an))

\* calculateComplexity: avgComplexity is sum / length, compared as the exact
\* fraction; for the empty list it is 0 / 0 = NaN, no comparison with NaN
\* holds and the last return is reached.
calculateComplexity(an) ==
    IF Len(an) = 0 THEN "High"
    ELSE IF SumComplexity(an) <= 4 * Len(an) THEN "Low"
    ELSE IF SumComplexity(an) <= 7 * Len(an) THEN "Medium"
    ELSE "High"

\* A plausible slip of assessMaintainability: the mean is taken over all
\* analyses.
assessMaintainabilityOverAll(an) ==
    LET sum == IF Len(an) > 0 THEN SumComplexity(an) ELSE 5
        count == IF Len(an) > 0 THEN Len(an) ELSE 1
    IN  IF sum <= 3 * count THEN "Excellent"
        ELSE IF sum <= 5 * count THEN "Good"
        ELSE IF sum <= 7 * count THEN "Fair"
        ELSE "Needs Improvement"

\* assessMaintainability: the mean over the analyses with importance
\* 'critical', or 5 when there is none.
assessMaintainability(an) ==
    LET criticalFiles == SelectSeq(an, LAMBDA a : Has(a, "importance") /\ a.importance = "critical")
        sum == IF Len(criticalFiles) > 0 THEN SumComplexity(criticalFiles) ELSE 5
        count == IF Len(criticalFiles) > 0 THEN Len(criticalFiles) ELSE 1
    IN  IF sum <= 3 * count THEN "Excellent"
        ELSE IF sum <= 5 * count THEN "Good"
        ELSE IF sum <= 7 * count THEN "Fair"
        ELSE "Needs Improvement"

\* metrics of the document (testCoverage and performance are left out)
Metrics(an) ==
    [complexity |-> calculateComplexity(an), maintainability |-> assessMaintainability(an)]

\* generateGettingStarted: the two commands of the framework (those of
\* 'Unknown' for a framework without an entry) and the directory name made
\* of context.name; the names of the model are lower-case without blanks,
\* which toLowerCase().replace(/\s+/g, '-') leaves as they are.
generateGettingStarted(context) ==
    [directory |-> context.name,
     install |-> "npm install",
     start |-> CASE context.framework = "Next.js" -> "npm run dev"
                 [] context.framework = "Vue.js" -> "npm run serve"
                 [] OTHER -> "npm start"]

\* A plausible slip of generateOverview: the early return for an empty
\* critical list is missing, so the overview call is always made.
synthesisCallsUnguarded(grouped) == {"overview", "architecture"}

\* The completion calls the four section builders of Promise.all make:
\* generateOverview one unless criticalFiles is empty, generateArchitecture
\* one, generateApiReference and generateGettingStarted none.
synthesisCalls(grouped) ==
    IF Len(grouped.critical) = 0 THEN {"architecture"} ELSE {"overview", "architecture"}

\* ----------------------------------------------------------------- state
VARIABLES
    input,          \* the caller's file list as it was before the call
    repositoryInfo, \* the RepositoryInfo the caller passes
    files,          \* the caller's array (prioritizeFiles sorts it in place)
    service,        \* what the completion service answers (see Responses)
    sinkOpen,       \* FALSE once onProgress throws (the client left the stream)
    pc,             \* "idle", "batchAwait", "synthAwait", "returned", "threw"
    events,         \* the events handed to onProgress, in order
    i,              \* the loop index of the batch loop
    calls,          \* the analyzeFile promises of the current batch
    analyses,       \* const analyses: FileAnalysis[]
    analyzerCalls,  \* the files analyzeFile was called on so far, in order
    synth,          \* the overview and architecture promises of the compiler
    synthCalls,     \* the synthesis completion calls made so far
    result,         \* what the call returned or threw
    outstanding,    \* the files whose analyzeFile promise has not settled
    categorizedFiles, \* const categorizedFiles (category -> files); empty before
    request,        \* the HTTP request a route handler serves ("direct": none)
    hpc,            \* the handler's position; "pipeline" while the pipeline runs
    sent,           \* the events the GET handler itself enqueued on its stream
    closes,         \* the number of controller.close() calls
    response,       \* the HTTP response (status 0: none yet)
    fetched,        \* TRUE once the handler got repositoryInfo and allFiles
    markdownModule, \* which openai-service module the build resolves
    db,             \* the tables users, repositories, documentations
    saves,          \* the saveDocumentation calls made so far
    accesses        \* the read and delete calls on the store made so far

pipelineVars == <<input, repositoryInfo, files, service, sinkOpen, pc, events, i, calls, analyses,
                  analyzerCalls, synth, synthCalls, result, outstanding, categorizedFiles>>
routeVars == <<request, hpc, sent, closes, response, fetched, markdownModule>>
storeVars == <<db, saves, accesses>>
vars == <<pipelineVars, routeVars, storeVars>>

Progress(n, d) == [n |-> n, d |-> d]
ProgressEvent(type, n, d) == [type |-> type, progress |-> Progress(n, d)]

\* the event of the catch block
ErrorEvent == ProgressEvent("error", 0, 1)

NoSynth == [overview |-> [status |-> "none"], architecture |-> [status |-> "none"]]

\* No row in any table; ids counts the ids handed out by cuid().
EmptyDb == [users |-> {}, repositories |-> {}, documentations |-> {}, ids |-> 0]

\* The pipeline is called directly: no request, no handler, no store.
NoRoute ==
    /\ request = [method |-> "direct"]
    /\ hpc = "pipeline"
    /\ sent = <<>>
    /\ closes = 0
    /\ response = [status |-> 0]
    /\ fetched = FALSE
    /\ markdownModule = "none"

NoStore ==
    /\ db = EmptyDb
    /\ saves = <<>>
    /\ accesses = <<>>

InitWith(lists, services, infos) ==
    /\ input \in lists
    /\ repositoryInfo \in infos
    /\ files = input
    /\ service \in services
    /\ sinkOpen = TRUE
    /\ pc = "idle"
    /\ events = <<>>
    /\ i = 0
    /\ calls = <<>>
    /\ analyses = <<>>
    /\ analyzerCalls = <<>>
    /\ synth = NoSynth
    /\ synthCalls = {}
    /\ result = [kind |-> "none"]
    /\ outstanding = {}
    /\ categorizedFiles = [c \in {} |-> <<>>]

\* A short input list and a completion service that may answer anything,
\* or a list around the file cap and a scripted completion service.
Init ==
    /\ \/ InitWith(InputLists, {"any"}, {CHOOSE info \in RepositoryInfos : info.language # ""})
       \/ InitWith(CapLists, Services, RepositoryInfos)
    /\ NoRoute
    /\ NoStore

\* analyzeFile up to its first await of the completion service: the promise
\* is pending, or already rejected when generateCacheKey threw (file.content
\* is undefined: a TypeError ahead of the try block).
analyzeFileCalled(file, context) ==
    IF Has(file, "content")
    THEN [file |-> file, status |-> "pending", prompt |-> buildFileAnalysisPrompt(file, context)]
    ELSE [file |-> file, status |-> "rejected"]

\* A plausible slip of the Compiler's progress mapping: the offset of the
\* compile stage is forgotten.
overallProgressNoOffset(compilerProgress) == Progress(compilerProgress * 3, 10)

\* const overallProgress = 70 + (compilerProgress * 0.3)
overallProgress(compilerProgress) == Progress(700 + compilerProgress * 3, 10)

\* A plausible slip of maxFiles: the cap forgotten.
maxFilesUncapped(fs) == Len(fs)

\* const maxFiles = Math.min(prioritizedFiles.length, 30)
maxFiles(fs) == Min(Len(fs), FileCap)

\* A plausible slip of the catch block: the error is rethrown without an
\* error event.
CatchNoEvent(evs, error) ==
    /\ events' = evs
    /\ pc' = "threw"
    /\ result' = [kind |-> "error", error |-> error]
    /\ calls' = <<>>

\* The catch block: the error event goes to onProgress, the error is
\* rethrown.  `evs` are the events emitted before the throw.
Catch(evs, error) ==
    /\ events' = Append(evs, ErrorEvent)
    /\ pc' = "threw"
    /\ result' = [kind |-> "error", error |-> error]
    /\ calls' = <<>>

\* The loop head with index idx, the sink working: the next batch is
\* started, or the loop is left and compilation starts, up to the
\* await of the two synthesis promises.
EnterLoop(idx, evs, an, fs) ==
    /\ analyses' = an
    /\ IF idx < maxFiles(fs)
       THEN LET batch == SubSeq(fs, idx + 1, Min(idx + batchSize, Len(fs))) IN
            /\ i' = idx
            /\ calls' = [k \in 1..Len(batch) |->
                            analyzeFileCalled(batch[k], ProjectContext(repositoryInfo, fs))]
            /\ analyzerCalls' = analyzerCalls \o batch
            /\ outstanding' =
                 outstanding \cup {batch[k] : k \in {m \in 1..Len(batch) : Has(batch[m], "content")}}
            /\ events' = evs
            /\ pc' = "batchAwait"
            /\ UNCHANGED <<synth, synthCalls, result>>
       ELSE LET evs70 == Append(evs, ProgressEvent("compiling", 70, 1)) IN
            /\ i' = idx
            /\ UNCHANGED <<analyzerCalls, outstanding>>
            /\ IF groupAnalysesThrows(an)
               THEN /\ Catch(evs70, "TypeError")
                    /\ UNCHANGED <<synth, synthCalls>>
               ELSE LET grouped == groupAnalyses(an)
                        context == ProjectContext(repositoryInfo, fs)
                        \* onProgress?.(75)
                        evs75 == Append(evs70, [type |-> "compiling", progress |-> overallProgress(75)])
                    IN  /\ events' = evs75
                        /\ calls' = <<>>
                        /\ synth' =
                             [overview |->
                                 IF Len(grouped.critical) = 0
                                 THEN [status |-> "fulfilled",
                                       value |-> generateOverview(grouped.critical, context, [kind |-> "none"])]
                                 ELSE [status |-> "pending"],
                              architecture |-> [status |-> "pending"]]
                        /\ synthCalls' = synthesisCalls(grouped)
                        /\ pc' = "synthAwait"
                        /\ UNCHANGED result

\* generateDocumentationStream is called and runs up to its first await of
\* completion calls.
Start ==
    /\ pc = "idle"
    /\ hpc = "pipeline"
    /\ UNCHANGED <<routeVars, storeVars>>
    /\ UNCHANGED <<input, repositoryInfo, service, sinkOpen>>
    /\ LET started0 == ProgressEvent("started", 0, 1)
           started5 == ProgressEvent("started", 5, 1)
           categorized == ProgressEvent("categorized", 10, 1)
       IN  IF ~sinkOpen
           THEN /\ Catch(<<started0>>, "SinkError")
                /\ UNCHANGED <<files, i, analyses, analyzerCalls, synth, synthCalls,
                               outstanding, categorizedFiles>>
           ELSE LET sorted == prioritizeFiles(files) IN
                /\ categorizedFiles' = categorizeFiles(files)
                /\ files' = sorted
                /\ EnterLoop(0, <<started0, started5, categorized>>, <<>>, sorted)

\* A plausible slip of the merge: each analyzeFile promise pushes its result
\* to the shared list as soon as it settles (and resolves to nothing the
\* later merge would push again).
AnalyzeSettlesPushes ==
    /\ pc = "batchAwait"
    /\ UNCHANGED <<routeVars, storeVars>>
    /\ \E k \in 1..Len(calls) :
        /\ calls[k].status = "pending"
        /\ \E resp \in Responses(service, calls[k].file) :
             /\ calls' = [calls EXCEPT ![k] = [file |-> calls[k].file, answer |-> resp, status |-> "rejected"]]
             /\ analyses' = Append(analyses, analyzeFile(calls[k].file, resp).value)
        /\ outstanding' = outstanding \ {calls[k].file}
    /\ UNCHANGED <<input, repositoryInfo, files, service, sinkOpen, pc, events, i,
                   analyzerCalls, synth, synthCalls, result, categorizedFiles>>

\* The completion call of one analyzeFile of the current batch is answered
\* and that analyzeFile runs to its end.
AnalyzeSettles ==
    /\ pc = "batchAwait"
    /\ UNCHANGED <<routeVars, storeVars>>
    /\ \E k \in 1..Len(calls) :
        /\ calls[k].status = "pending"
        /\ \E resp \in Responses(service, calls[k].file) :
             calls' = [calls EXCEPT ![k] = [file |-> calls[k].file, prompt |-> calls[k].prompt,
                                              answer |-> resp]
                                             @@ analyzeFile(calls[k].file, resp)]
        /\ outstanding' = outstanding \ {calls[k].file}
    /\ UNCHANGED <<input, repositoryInfo, files, service, sinkOpen, pc, events, i, analyses,
                   analyzerCalls, synth, synthCalls, result, categorizedFiles>>

\* A plausible slip of the merge: it stops at the first rejected result.
RECURSIVE FulfilledUntilRejected(_)
FulfilledUntilRejected(cs) ==
    IF cs = <<>> \/ Head(cs).status = "rejected" THEN <<>>
    ELSE <<Head(cs).value>> \o FulfilledUntilRejected(Tail(cs))

\* batchResults.forEach: the fulfilled values, in the order of the batch
RECURSIVE Fulfilled(_)
Fulfilled(cs) ==
    IF cs = <<>> THEN <<>>
    ELSE (IF Head(cs).status = "fulfilled" THEN <<Head(cs).value>> ELSE <<>>) \o Fulfilled(Tail(cs))

\* A plausible slip of the batch await: Promise.race, which resolves with the
\* first promise that settles.
raceSettled(cs) == \E k \in 1..Len(cs) : cs[k].status # "pending"

\* await Promise.allSettled(batchPromises) resumes when no promise is pending
allSettled(cs) == \A k \in 1..Len(cs) : cs[k].status # "pending"

\* A plausible slip of the progress formula: the batch's own files are not
\* counted.
analyzingProgressOfIndex(idx, batchLength, mf) == Progress(10 * mf + idx * 60, mf)

\* const progress = 10 + ((i + batch.length) / maxFiles) * 60
analyzingProgress(idx, batchLength, mf) == Progress(10 * mf + (idx + batchLength) * 60, mf)

\* Promise.allSettled resolves: the results are merged, the analyzing event
\* is emitted and the loop goes on.
BatchSettled ==
    /\ pc = "batchAwait"
    /\ UNCHANGED <<routeVars, storeVars>>
    /\ allSettled(calls)
    /\ UNCHANGED <<input, repositoryInfo, files, service, sinkOpen, categorizedFiles>>
    /\ LET an == analyses \o Fulfilled(calls)
           mf == maxFiles(files)
           analyzing == [type |-> "analyzing", progress |-> analyzingProgress(i, Len(calls), mf)]
       IN  IF ~sinkOpen
           THEN /\ Catch(Append(events, analyzing), "SinkError")
                /\ analyses' = an
                /\ UNCHANGED <<i, analyzerCalls, synth, synthCalls, outstanding>>
           ELSE EnterLoop(i + batchSize, Append(events, analyzing), an, files)

\* A synthesis completion call is answered and generateOverview or
\* generateArchitecture runs to its end: the text, the default for an empty
\* message, or the fallback sentence of its catch block.
SynthSettles ==
    /\ pc = "synthAwait"
    /\ UNCHANGED <<routeVars, storeVars>>
    /\ \E which \in {"overview", "architecture"} :
        /\ synth[which].status = "pending"
        /\ \E resp \in SynthResponses :
             LET grouped == groupAnalyses(analyses)
                 context == ProjectContext(repositoryInfo, files)
             IN  synth' = [synth EXCEPT ![which] =
                             [status |-> "fulfilled", answer |-> resp,
                              value |-> IF which = "overview"
                                        THEN generateOverview(grouped.critical, context, resp)
                                        ELSE generateArchitecture(grouped.high, context, resp)]]
    /\ UNCHANGED <<input, repositoryInfo, files, service, sinkOpen, pc, events, i, calls, analyses,
                   analyzerCalls, synthCalls, result, outstanding, categorizedFiles>>

\* Promise.all resolves: the document is put together and returned.
SynthDone ==
    /\ pc = "synthAwait"
    /\ UNCHANGED <<routeVars, storeVars>>
    /\ \A which \in {"overview", "architecture"} : synth[which].status = "fulfilled"
    /\ UNCHANGED <<input, repositoryInfo, files, service, sinkOpen, i, analyses, analyzerCalls, synth,
                   synthCalls, outstanding, categorizedFiles>>
    /\ LET \* onProgress?.(90)
           evs90 == Append(events, [type |-> "compiling", progress |-> overallProgress(90)])
           \* onProgress?.(100)
           evs100 == Append(evs90, [type |-> "compiling", progress |-> overallProgress(100)])
       IN  IF ~sinkOpen THEN Catch(evs90, "SinkError")
           ELSE IF convertAnalysesToDocsThrows(analyses) THEN Catch(evs90, "TypeError")
           ELSE /\ events' = Append(evs100, ProgressEvent("completed", 100, 1))
                /\ pc' = "returned"
                /\ calls' = <<>>
                /\ result' =
                     [kind |-> "document",
                      document |->
                        [overview |-> synth.overview.value,
                         architecture |-> synth.architecture.value,
                         apiReference |-> generateApiReference(groupAnalyses(analyses).api),
                         gettingStarted |->
                             generateGettingStarted(ProjectContext(repositoryInfo, files)),
                         keyComponents |-> generateKeyComponents(analyses),
                         fileDocumentations |-> convertAnalysesToDocs(analyses),
                         metrics |-> Metrics(analyses)]]

\* The consumer of the progress sink goes away while the pipeline waits:
\* from then on onProgress throws.
SinkBreaks ==
    /\ request.method # "POST"
    /\ hpc \notin {"received", "done", "crashed"}
    /\ \/ pc \in {"idle", "batchAwait", "synthAwait"}
       \/ hpc \in {"markdown", "saving"}
    /\ sinkOpen
    /\ UNCHANGED <<routeVars, storeVars>>
    /\ sinkOpen' = FALSE
    /\ UNCHANGED <<input, repositoryInfo, files, service, pc, events, i, calls, analyses,
                   analyzerCalls, synth, synthCalls, result, outstanding, categorizedFiles>>

Next ==
    \/ Start
    \/ AnalyzeSettles
    \/ BatchSettled
    \/ SynthSettles
    \/ SynthDone
    \/ SinkBreaks

Spec == Init /\ [][Next]_vars

\* The pipeline called with a file that has no content.
InitUntyped ==
    /\ InitWith(UntypedLists, {"any"}, {CHOOSE info \in RepositoryInfos : info.language = ""})
    /\ NoRoute
    /\ NoStore
SpecUntyped == InitUntyped /\ [][Next]_vars

\* The pipeline called with a file whose content is about as long as the
\* ceiling of the prompt.
InitLongContent ==
    /\ InitWith(LongLists, {"good", "down"}, {CHOOSE info \in RepositoryInfos : info.language # ""})
    /\ NoRoute
    /\ NoStore
SpecLongContent == InitLongContent /\ [][Next]_vars

\* The Compiler's metrics on analyses lists of every mix of tiers and
\* complexities: lists of up to MaxAnalyses analyses.
MaxAnalyses == 3
MetricAnalyses ==
    { [filePath |-> PathIndex, summary |-> <<"summary">>, importance |-> imp, complexity |-> c,
       functions |-> <<>>, classes |-> <<>>, dependencies |-> <<>>]
      : imp \in {"critical", "high"}, c \in 1..10 }
AnalysesLists == UNION { [1..n -> MetricAnalyses] : n \in 0..MaxAnalyses }

InitMetrics ==
    /\ InitWith({<<>>}, {"good"}, {CHOOSE info \in RepositoryInfos : info.language # ""})
    /\ NoRoute
    /\ NoStore

\* The list is drawn, as the batch loop may leave it.
AnalysesGiven ==
    /\ pc = "idle"
    /\ hpc = "pipeline"
    /\ \E an \in AnalysesLists : analyses' = an
    /\ pc' = "compiler"
    /\ UNCHANGED <<input, repositoryInfo, files, service, sinkOpen, events, i, calls,
                   analyzerCalls, synth, synthCalls, result, outstanding, categorizedFiles>>
    /\ UNCHANGED <<routeVars, storeVars>>

\* metrics: { complexity: this.calculateComplexity(analyses),
\*            maintainability: this.assessMaintainability(analyses), ... }
ComputeMetrics ==
    /\ pc = "compiler"
    /\ result' = [kind |-> "metrics", metrics |-> Metrics(analyses)]
    /\ pc' = "metrics"
    /\ UNCHANGED <<input, repositoryInfo, files, service, sinkOpen, events, i, calls, analyses,
                   analyzerCalls, synth, synthCalls, outstanding, categorizedFiles>>
    /\ UNCHANGED <<routeVars, storeVars>>

NextMetrics ==
    \/ AnalysesGiven
    \/ ComputeMetrics

SpecMetrics == InitMetrics /\ [][NextMetrics]_vars

\* ------------------------------------------------------------- database
\* The most saveDocumentation calls of one behaviour of SpecStore.
MaxSaves == 2

\* JSON.stringify and JSON.parse of the structured data (a text column)
JsonStringify(value) == <<"json", value>>
JsonParse(text) == text[2]

\* cuid(): the next id no row has
Cuid(d) == <<"cuid", d.ids + 1>>

\* prisma.user.upsert({ where: { githubId }, update: {updatedAt}, create })
userUpsert(d, githubId) ==
    IF \E u \in d.users : u.githubId = githubId
    THEN [db |-> d, user |-> CHOOSE u \in d.users : u.githubId = githubId]
    ELSE LET u == [id |-> Cuid(d), githubId |-> githubId, username |-> <<"user_", githubId>>,
                   accessToken |-> "placeholder"]
         IN  [db |-> [d EXCEPT !.users = @ \cup {u}, !.ids = @ + 1], user |-> u]

\* prisma.repository.upsert({ where: { id }, update, create }); the unique
\* index on fullName makes it throw when another row has that fullName.
repositoryUpsert(d, r) ==
    LET row == [id |-> r.id, name |-> r.name, fullName |-> r.fullName]
        others == {o \in d.repositories : o.id # r.id}
    IN  IF \E o \in others : o.fullName = r.fullName
        THEN [ok |-> FALSE, db |-> d]
        ELSE [ok |-> TRUE, db |-> [d EXCEPT !.repositories = others \cup {row}]]

\* A plausible slip of the documentation upsert: the old row is deleted and a
\* new one is created.
documentationUpsertRecreates(d, userId, repositoryId, doc) ==
    LET others == {o \in d.documentations : o.userId # userId \/ o.repositoryId # repositoryId}
        row == [id |-> Cuid(d), userId |-> userId, repositoryId |-> repositoryId,
                title |-> doc.title, markdownContent |-> doc.markdownContent,
                structuredData |-> JsonStringify(doc.structuredData),
                filesAnalyzed |-> doc.filesAnalyzed]
    IN  [ok |-> TRUE, row |-> row,
         db |-> [d EXCEPT !.documentations = others \cup {row}, !.ids = @ + 1]]

\* prisma.documentation.upsert({ where: { userId_repositoryId }, update,
\* create }): the row of the pair keeps its id and gets the new title,
\* Markdown, structured data and file count, or a row is created.  The
\* foreign keys make it throw when the user or repository row is missing.
documentationUpsert(d, userId, repositoryId, doc) ==
    LET mine == {o \in d.documentations : o.userId = userId /\ o.repositoryId = repositoryId}
        row == [id |-> IF mine = {} THEN Cuid(d) ELSE (CHOOSE o \in mine : TRUE).id,
                userId |-> userId, repositoryId |-> repositoryId,
                title |-> doc.title, markdownContent |-> doc.markdownContent,
                structuredData |-> JsonStringify(doc.structuredData),
                filesAnalyzed |-> doc.filesAnalyzed]
    IN  IF (\A u \in d.users : u.id # userId) \/ (\A r \in d.repositories : r.id # repositoryId)
        THEN [ok |-> FALSE, db |-> d]
        ELSE [ok |-> TRUE, row |-> row,
              db |-> [d EXCEPT !.documentations = (@ \ mine) \cup {row},
                               !.ids = IF mine = {} THEN @ + 1 ELSE @]]

\* saveDocumentation is called: it runs up to the await of the user upsert.
SaveCall(githubId, repositoryData, documentation) ==
    [githubId |-> githubId, repositoryData |-> repositoryData, documentation |-> documentation,
     pc |-> "user", user |-> <<>>, result |-> [kind |-> "none"]]

\* const user = await prisma.user.upsert(...)
UpsertUser ==
    /\ \E c \in 1..Len(saves) :
        /\ saves[c].pc = "user"
        /\ LET r == userUpsert(db, saves[c].githubId) IN
            /\ db' = r.db
            /\ saves' = [saves EXCEPT ![c].pc = "repository", ![c].user = r.user.id]
    /\ UNCHANGED <<pipelineVars, routeVars, accesses>>

\* await prisma.repository.upsert(...)
UpsertRepository ==
    /\ \E c \in 1..Len(saves) :
        /\ saves[c].pc = "repository"
        /\ LET r == repositoryUpsert(db, saves[c].repositoryData) IN
            /\ db' = r.db
            /\ saves' = IF r.ok
                        THEN [saves EXCEPT ![c].pc = "documentation"]
                        ELSE [saves EXCEPT ![c].pc = "threw",
                                           ![c].result = [kind |-> "error", error |-> "UniqueConstraint"]]
    /\ UNCHANGED <<pipelineVars, routeVars, accesses>>

\* const savedDoc = await prisma.documentation.upsert(...), and the return
UpsertDocumentation ==
    /\ \E c \in 1..Len(saves) :
        /\ saves[c].pc = "documentation"
        /\ LET r == documentationUpsert(db, saves[c].user, saves[c].repositoryData.id,
                                        saves[c].documentation)
           IN
            /\ db' = r.db
            /\ saves' =
                 IF r.ok
                 THEN [saves EXCEPT
                         ![c].pc = "returned",
                         ![c].result =
                            [kind |-> "saved",
                             id |-> r.row.id,
                             title |-> r.row.title,
                             markdownContent |-> r.row.markdownContent,
                             structuredData |-> JsonParse(r.row.structuredData),
                             filesAnalyzed |-> r.row.filesAnalyzed,
                             repository |-> CHOOSE o \in r.db.repositories : o.id = r.row.repositoryId]]
                 ELSE [saves EXCEPT ![c].pc = "threw",
                                    ![c].result = [kind |-> "error", error |-> "ForeignKeyConstraint"]]
    /\ UNCHANGED <<pipelineVars, routeVars, accesses>>

\* The database does not answer a query: the awaited Prisma call rejects and
\* saveDocumentation with it.
PrismaFails ==
    /\ \E c \in 1..Len(saves) :
        /\ saves[c].pc \in {"user", "repository", "documentation"}
        /\ saves' = [saves EXCEPT ![c].pc = "threw",
                                  ![c].result = [kind |-> "error", error |-> "PrismaError"]]
    /\ UNCHANGED <<pipelineVars, routeVars, db, accesses>>

\* The arguments of the saveDocumentation calls of SpecStore: two users,
\* three repositories (the third has the first one's fullName under another
\* id), two documentations.
GithubIds == {"gh-1", "gh-2"}
RepositoryDatas ==
    { [id |-> 1, name |-> "docgenius", fullName |-> "yakoubeth/docgenius"],
      [id |-> 2, name |-> "notes", fullName |-> "octo/notes"],
      [id |-> 3, name |-> "docgenius", fullName |-> "yakoubeth/docgenius"] }
Documentations ==
    { [title |-> "docgenius Documentation", markdownContent |-> "markdown A",
       structuredData |-> "analysis A", filesAnalyzed |-> 3],
      [title |-> "notes Documentation", markdownContent |-> "markdown B",
       structuredData |-> "analysis B", filesAnalyzed |-> 7] }

\* Some caller calls saveDocumentation; calls of several requests overlap.
SaveCalled ==
    /\ Len(saves) < MaxSaves
    /\ \E g \in GithubIds, r \in RepositoryDatas, d \in Documentations :
          saves' = Append(saves, SaveCall(g, r, d))
    /\ UNCHANGED <<pipelineVars, routeVars, db, accesses>>

InitStore ==
    /\ InitWith({<<>>}, {"good"}, {CHOOSE info \in RepositoryInfos : info.language # ""})
    /\ NoRoute
    /\ NoStore

NextStore ==
    \/ SaveCalled
    \/ UpsertUser
    \/ UpsertRepository
    \/ UpsertDocumentation
    \/ PrismaFails

\* The store under saveDocumentation calls.
SpecStore == InitStore /\ [][NextStore]_vars

\* ------------------------------------------------- reads and deletes
\* The most read and delete calls of one behaviour of SpecAccess.
MaxAccesses == 2

\* prisma.user.findUnique({ where: { githubId } })
userFindUnique(d, githubId) ==
    IF \E u \in d.users : u.githubId = githubId
    THEN [found |-> TRUE, user |-> CHOOSE u \in d.users : u.githubId = githubId]
    ELSE [found |-> FALSE]

\* A plausible slip of the delete: the row is selected by its id alone.
documentationDeleteById(d, id, userId) ==
    LET rows == {o \in d.documentations : o.id = id}
    IN  IF rows = {} THEN [ok |-> FALSE, db |-> d]
        ELSE [ok |-> TRUE, db |-> [d EXCEPT !.documentations = @ \ rows]]

\* prisma.documentation.delete({ where: { id, userId } }): the row with that
\* id and that owner is removed; the call throws when there is none.
documentationDelete(d, id, userId) ==
    LET rows == {o \in d.documentations : o.id = id /\ o.userId = userId}
    IN  IF rows = {} THEN [ok |-> FALSE, db |-> d]
        ELSE [ok |-> TRUE, db |-> [d EXCEPT !.documentations = @ \ rows]]

\* The SavedDocumentation made of a row and its repository
SavedDocumentation(d, row) ==
    [id |-> row.id, title |-> row.title, markdownContent |-> row.markdownContent,
     structuredData |-> JsonParse(row.structuredData), filesAnalyzed |-> row.filesAnalyzed,
     repository |-> CHOOSE o \in d.repositories : o.id = row.repositoryId]

\* prisma.documentation.findMany({ where: { userId }, ... }) and the map to
\* SavedDocumentation (the order by updatedAt is left out: a set)
documentationFindMany(d, userId) ==
    {SavedDocumentation(d, o) : o \in {o \in d.documentations : o.userId = userId}}

\* prisma.documentation.findFirst({ where: { id, userId }, ... }): the set
\* of the one row found, or the empty set for null
documentationFindFirst(d, id, userId) ==
    {SavedDocumentation(d, o) : o \in {o \in d.documentations : o.id = id /\ o.userId = userId}}

\* A store as completed saveDocumentation calls leave it.
RECURSIVE StoreAfter(_)
StoreAfter(done) ==
    IF done = <<>> THEN EmptyDb
    ELSE LET call == done[Len(done)]
             before == StoreAfter(SubSeq(done, 1, Len(done) - 1))
             u == userUpsert(before, call.githubId)
             r == repositoryUpsert(u.db, call.repositoryData)
         IN  documentationUpsert(r.db, u.user.id, call.repositoryData.id, call.documentation).db

\* The saves that filled the stores of SpecAccess: two users documented the
\* same repository, the first user a second one as well.
SavedBefore ==
    LET repo(n) == CHOOSE r \in RepositoryDatas : r.id = n
        doc(t) == CHOOSE d \in Documentations : d.markdownContent = t
    IN  << SaveCall("gh-1", repo(1), doc("markdown A")),
           SaveCall("gh-2", repo(1), doc("markdown B")),
           SaveCall("gh-1", repo(2), doc("markdown B")) >>
Stores == {StoreAfter(Take(SavedBefore, n)) : n \in 0..Len(SavedBefore)}

\* The arguments of the calls: the id of one of the two documentations of
\* the shared repository or an id no row has; the GitHub id of a stored user
\* or of nobody.
AccessIds ==
    {o.id : o \in {d \in StoreAfter(SavedBefore).documentations : d.repositoryId = 1}}
        \cup {<<"cuid", 0>>}
AccessGithubIds == GithubIds \cup {"gh-3"}

\* A call of deleteDocumentation, getDocumentationById or
\* getUserDocumentations up to the await of the user lookup.
AccessCall(op, id, githubId) ==
    [op |-> op, id |-> id, githubId |-> githubId, pc |-> "user", user |-> <<>>,
     result |-> [kind |-> "none"]]

AccessCalled ==
    /\ Len(accesses) < MaxAccesses
    /\ \/ \E op \in {"delete", "get"}, id \in AccessIds, g \in AccessGithubIds :
             accesses' = Append(accesses, AccessCall(op, id, g))
       \/ \E g \in AccessGithubIds :
             accesses' = Append(accesses, AccessCall("list", <<>>, g))
    /\ UNCHANGED <<pipelineVars, routeVars, db, saves>>

\* What a call returns when there is no user: false, [] or null
NoUserResult(op) ==
    IF op = "delete" THEN [kind |-> "bool", value |-> FALSE] ELSE [kind |-> "docs", docs |-> {}]

\* const user = await prisma.user.findUnique(...); if (!user) return ...
FindUser ==
    /\ \E c \in 1..Len(accesses) :
        /\ accesses[c].pc = "user"
        /\ LET r == userFindUnique(db, accesses[c].githubId) IN
           accesses' = IF r.found
                       THEN [accesses EXCEPT ![c].pc = "query", ![c].user = r.user.id]
                       ELSE [accesses EXCEPT ![c].pc = "returned",
                                             ![c].result = NoUserResult(accesses[c].op)]
    /\ UNCHANGED <<pipelineVars, routeVars, db, saves>>

\* await prisma.documentation.delete(...); return true, or the catch block
\* when delete threw: return false
DeleteRow ==
    /\ \E c \in 1..Len(accesses) :
        /\ accesses[c].op = "delete" /\ accesses[c].pc = "query"
        /\ LET r == documentationDelete(db, accesses[c].id, accesses[c].user) IN
            /\ db' = r.db
            /\ accesses' = [accesses EXCEPT ![c].pc = "returned",
                                            ![c].result = [kind |-> "bool", value |-> r.ok]]
    /\ UNCHANGED <<pipelineVars, routeVars, saves>>

\* findMany or findFirst has answered and the rows are mapped and returned.
FindRows ==
    /\ \E c \in 1..Len(accesses) :
        /\ accesses[c].op \in {"list", "get"} /\ accesses[c].pc = "query"
        /\ accesses' =
             [accesses EXCEPT
                ![c].pc = "returned",
                ![c].result =
                    [kind |-> "docs",
                     docs |-> IF accesses[c].op = "list"
                              THEN documentationFindMany(db, accesses[c].user)
                              ELSE documentationFindFirst(db, accesses[c].id, accesses[c].user)]]
    /\ UNCHANGED <<pipelineVars, routeVars, db, saves>>

\* The database does not answer a query: deleteDocumentation catches the
\* rejection and returns false, the two read functions reject.
AccessFails ==
    /\ \E c \in 1..Len(accesses) :
        /\ accesses[c].pc \in {"user", "query"}
        /\ accesses' =
             IF accesses[c].op = "delete"
             THEN [accesses EXCEPT ![c].pc = "returned",
                                   ![c].result = [kind |-> "bool", value |-> FALSE]]
             ELSE [accesses EXCEPT ![c].pc = "threw",
                                   ![c].result = [kind |-> "error", error |-> "PrismaError"]]
    /\ UNCHANGED <<pipelineVars, routeVars, db, saves>>

InitAccess ==
    /\ InitWith({<<>>}, {"good"}, {CHOOSE info \in RepositoryInfos : info.language # ""})
    /\ NoRoute
    /\ db \in Stores
    /\ saves = <<>>
    /\ accesses = <<>>

NextAccess ==
    \/ AccessCalled
    \/ FindUser
    \/ DeleteRow
    \/ FindRows
    \/ AccessFails

\* A filled store under read and delete calls that may overlap.
SpecAccess == InitAccess /\ [][NextAccess]_vars

\* -------------------------------------------------------- route handlers
PathHelper == <<"s","r","c","/","h","e","l","p","e","r","s","/","f","m","t",".","t","s">>

\* Files as getAllRepositoryFiles returns them: code files with content.
RouteOrder ==
    << GitHubFile(PathApi, <<105>>, "TypeScript"),
       GitHubFile(PathIndex, <<105>>, "TypeScript"),
       GitHubFile(PathPkg, ReactManifest, "JSON"),
       GitHubFile(PathNav, <<105>>, "TypeScript"),
       GitHubFile(PathDb, <<105>>, "TypeScript"),
       GitHubFile(PathHelper, <<105>>, "TypeScript") >>

\* What the enumerator finds in the repository of a request: nothing, or the
\* first files of RouteOrder.
RouteLists == { Take(RouteOrder, n) : n \in 0..MaxFiles }

\* A repository with one file more than the pipeline analyses (the
\* enumerator returns up to 50 files).
RouteCapList == [k \in 1..(FileCap + 1) |-> GitHubFile(CapPath(1, k), <<105>>, "TypeScript")]

\* A request: its method, whether the session and the parameters pass the
\* handler's checks, the GitHub user id of the session, the repository id.
RouteRequests ==
    { [method |-> m, check |-> c, userId |-> "gh-1", repositoryId |-> 1] :
          m \in {"POST", "GET"}, c \in {"ok", "unauthorized", "invalid"} }

\* The argument of sendEvent
SseEvent(type, message, n) == [type |-> type, message |-> message, progress |-> Progress(n, 1)]

\* The catch block of a handler: POST answers 500; GET sends an error event
\* and closes the stream, and when the client has left sendEvent throws out
\* of the catch block, close() is not reached and the promise of
\* generateDocumentation() rejects unhandled.
HandlerCatch(evs) ==
    IF request.method = "POST"
    THEN /\ response' = [status |-> 500]
         /\ hpc' = "done"
         /\ UNCHANGED <<sent, closes>>
    ELSE IF sinkOpen
    THEN /\ sent' = Append(evs, SseEvent("error", "error.message", 0))
         /\ closes' = closes + 1
         /\ hpc' = "done"
         /\ UNCHANGED response
    ELSE /\ sent' = evs
         /\ hpc' = "crashed"
         /\ UNCHANGED <<closes, response>>

\* The handler is entered and runs up to the await of the repository data:
\* the session and parameter checks, and for GET the response with the
\* stream, on which the first event is enqueued.
HandlerStart ==
    /\ hpc = "received"
    /\ UNCHANGED <<pipelineVars, storeVars, closes, fetched, markdownModule, request>>
    /\ IF request.check = "unauthorized"
       THEN /\ response' = [status |-> 401]
            /\ hpc' = "done"
            /\ UNCHANGED sent
       ELSE IF request.check = "invalid"
       THEN /\ response' = [status |-> 400]
            /\ hpc' = "done"
            /\ UNCHANGED sent
       ELSE IF request.method = "POST"
       THEN /\ hpc' = "fetching"
            /\ UNCHANGED <<response, sent>>
       ELSE /\ sent' = <<SseEvent("progress", "Fetching repository data...", 0)>>
            /\ response' = [status |-> 200, body |-> "stream"]
            /\ hpc' = "fetching"

\* A plausible slip of the handlers: the check for an empty list is missing.
noFilesUnchecked(allFiles) == FALSE

\* allFiles.length === 0
noFiles(allFiles) == Len(allFiles) = 0

\* getRepositoryInfo and getAllRepositoryFiles have settled: a rejection
\* goes to the catch block, an empty list ends the request, and otherwise
\* generateDocumentationStream is called.
FetchDone ==
    /\ hpc = "fetching"
    /\ UNCHANGED <<pipelineVars, storeVars, markdownModule, request>>
    /\ \E outcome \in {"resolved", "rejected"} :
        IF outcome = "rejected"
        THEN /\ HandlerCatch(sent)
             /\ UNCHANGED fetched
        ELSE /\ fetched' = TRUE
             /\ IF noFiles(files)
                THEN IF request.method = "POST"
                     THEN /\ response' = [status |-> 404]
                          /\ hpc' = "done"
                          /\ UNCHANGED <<sent, closes>>
                     ELSE IF sinkOpen
                     THEN /\ sent' = Append(sent, SseEvent("error", "No suitable files found", 0))
                          /\ closes' = closes + 1
                          /\ hpc' = "done"
                          /\ UNCHANGED response
                     ELSE HandlerCatch(sent)
                ELSE /\ hpc' = "pipeline"
                     /\ UNCHANGED <<sent, closes, response>>

\* generateMarkdownDocumentation of the module the build resolves for
\* '@/lib/openai-service': one reads doc.constants.length of every file
\* documentation (a TypeError, the Compiler's entries have no constants),
\* the other guards every field it reads.
generateMarkdownThrows(module, document) ==
    module = "unguarded" /\ DOMAIN document.fileDocumentations # {}

generateMarkdownDocumentation(document, name, fullName, filesAnalyzed) ==
    [analysis |-> document, repositoryName |-> name, repositoryFullName |-> fullName,
     filesAnalyzed |-> filesAnalyzed]

\* generateDocumentationStream has settled: a throw goes to the catch block;
\* with the document GET sends its 90 event and the Markdown is generated.
PipelineDone ==
    /\ hpc = "pipeline"
    /\ request.method # "direct"
    /\ pc \in {"returned", "threw"}
    /\ UNCHANGED <<pipelineVars, storeVars, fetched, markdownModule, request>>
    /\ IF pc = "threw"
       THEN HandlerCatch(sent)
       ELSE IF request.method = "GET" /\ ~sinkOpen
       THEN HandlerCatch(sent)
       ELSE /\ hpc' = "markdown"
            /\ sent' = IF request.method = "GET"
                       THEN Append(sent, SseEvent("progress", "Generating markdown...", 90))
                       ELSE sent
            /\ UNCHANGED <<closes, response>>

\* The arguments of the handler's saveDocumentation call
HandlerSaveCall ==
    SaveCall(request.userId,
             [id |-> request.repositoryId, name |-> repositoryInfo.name,
              fullName |-> repositoryInfo.fullName],
             [title |-> <<repositoryInfo.name, "Documentation">>,
              markdownContent |-> generateMarkdownDocumentation(result.document, repositoryInfo.name,
                                                                 repositoryInfo.fullName, Len(files)),
              structuredData |-> result.document,
              filesAnalyzed |-> Len(files)])

\* A plausible slip of the handlers: saveDocumentation is called without
\* waiting for the outcome of the Markdown generation.
MarkdownDoneSavesAnyway ==
    /\ hpc = "markdown"
    /\ UNCHANGED <<pipelineVars, db, accesses, fetched, markdownModule, request>>
    /\ IF request.method = "GET" /\ ~sinkOpen
       THEN /\ HandlerCatch(sent)
            /\ UNCHANGED saves
       ELSE /\ hpc' = "saving"
            /\ sent' = IF request.method = "GET"
                       THEN Append(sent, SseEvent("progress", "Saving documentation...", 95))
                       ELSE sent
            /\ saves' = Append(saves, HandlerSaveCall)
            /\ UNCHANGED <<closes, response>>

\* The Markdown generation has settled: a throw goes to the catch block;
\* otherwise GET sends its 95 event and saveDocumentation is called.
MarkdownDone ==
    /\ hpc = "markdown"
    /\ UNCHANGED <<pipelineVars, db, accesses, fetched, markdownModule, request>>
    /\ IF generateMarkdownThrows(markdownModule, result.document)
          \/ (request.method = "GET" /\ ~sinkOpen)
       THEN /\ HandlerCatch(sent)
            /\ UNCHANGED saves
       ELSE /\ hpc' = "saving"
            /\ sent' = IF request.method = "GET"
                       THEN Append(sent, SseEvent("progress", "Saving documentation...", 95))
                       ELSE sent
            /\ saves' = Append(saves, HandlerSaveCall)
            /\ UNCHANGED <<closes, response>>

\* saveDocumentation has settled: a throw goes to the catch block; otherwise
\* POST answers 200 and GET sends the complete event and closes the stream.
SaveDone ==
    /\ hpc = "saving"
    /\ saves[Len(saves)].pc \in {"returned", "threw"}
    /\ UNCHANGED <<pipelineVars, storeVars, fetched, markdownModule, request>>
    /\ LET saved == saves[Len(saves)].result IN
       IF saves[Len(saves)].pc = "threw"
       THEN HandlerCatch(sent)
       ELSE IF request.method = "POST"
       THEN /\ response' = [status |-> 200, documentationId |-> saved.id,
                            filesAnalyzed |-> Len(files),
                            finalProgress |-> events[Len(events)].progress]
            /\ hpc' = "done"
            /\ UNCHANGED <<sent, closes>>
       ELSE IF sinkOpen
       THEN /\ sent' = Append(sent, [type |-> "complete", message |-> "Documentation generated successfully!",
                                     progress |-> Progress(100, 1),
                                     data |-> [documentationId |-> saved.id, filesAnalyzed |-> Len(files)]])
            /\ closes' = closes + 1
            /\ hpc' = "done"
            /\ UNCHANGED response
       ELSE HandlerCatch(sent)

\* A scripted completion service, or one that may answer anything when the
\* repository has fewer files than a batch; a working completion service
\* for the repository with more files than the cap.
InitRoute ==
    /\ \/ InitWith(RouteLists, Services, {CHOOSE info \in RepositoryInfos : info.language # ""})
       \/ InitWith({RouteCapList}, {"good"}, {CHOOSE info \in RepositoryInfos : info.language # ""})
       \/ InitWith({l \in RouteLists : Len(l) < batchSize}, {"any"},
                   {CHOOSE info \in RepositoryInfos : info.language # ""})
    /\ request \in RouteRequests
    /\ hpc = "received"
    /\ sent = <<>>
    /\ closes = 0
    /\ response = [status |-> 0]
    /\ fetched = FALSE
    /\ markdownModule \in {"guarded", "unguarded"}
    /\ NoStore

NextRoute ==
    \/ HandlerStart
    \/ FetchDone
    \/ Start
    \/ AnalyzeSettles
    \/ BatchSettled
    \/ SynthSettles
    \/ SynthDone
    \/ SinkBreaks
    \/ PipelineDone
    \/ MarkdownDone
    \/ UpsertUser
    \/ UpsertRepository
    \/ UpsertDocumentation
    \/ PrismaFails
    \/ SaveDone

\* One request served by the POST or the GET handler.
SpecRoute == InitRoute /\ [][NextRoute]_vars

\* ------------------------------------------------------------ properties
ProgressLeq(a, b) == a.n * b.d <= b.n * a.d

Terminated == pc \in {"returned", "threw"}

\* The batch loop ran to its end (its condition i < maxFiles became false).
LoopFinished == pc # "idle" /\ i >= maxFiles(files)

Importances == {"critical", "high", "medium", "low"}

AnalyzedPaths == {analyzerCalls[k].path : k \in 1..Len(analyzerCalls)}

\* C1: in every run, returning or throwing, each event's progress is at
\* least the progress of the event emitted before it.
C1_ProgressNonDecreasing ==
    \A k \in 1..(Len(events) - 1) : ProgressLeq(events[k].progress, events[k + 1].progress)

\* C2: a run ends by returning a document, the last event being completed
\* with progress 100, or by throwing, the last event being an error event; an
\* error event is emitted exactly when the call throws, and no event follows
\* the completed or the error event.
C2_TerminalEvent ==
    /\ pc = "returned" =>
          /\ result.kind = "document"
          /\ events[Len(events)] = ProgressEvent("completed", 100, 1)
    /\ pc = "threw" =>
          /\ result.kind = "error"
          /\ events[Len(events)].type = "error"
    /\ ~Terminated => result.kind = "none"
    /\ (\E k \in 1..Len(events) : events[k].type = "error") <=> pc = "threw"
    /\ (\E k \in 1..Len(events) : events[k].type = "completed") <=> pc = "returned"
    /\ \A k \in 1..(Len(events) - 1) : events[k].type \notin {"completed", "error"}

\* A run that threw out of the compiler, after events of every stage.
C2_Witness ==
    /\ pc = "threw"
    /\ result.error = "TypeError"
    /\ events[Len(events)].type = "error"
    /\ \E k \in 1..Len(events) : events[k].type = "analyzing"

\* C3: called with an empty file list the pipeline fails at once: a terminal
\* error event, a throw, no document, and no completion call of any kind.
C3_EmptyListFails ==
    (input = <<>> /\ pc # "idle") =>
        /\ pc = "threw"
        /\ result.kind = "error"
        /\ events[Len(events)].type = "error"
        /\ analyzerCalls = <<>>
        /\ synthCalls = {}

\* C4: analyzeFile never rejects; when the completion call fails, has no
\* content or returns text that is no JSON, it resolves to the stub: the
\* file's path, importance low, complexity 5, no functions, classes or
\* dependencies, a summary noting the failure, and the cache key of a
\* successful call on that file.
C4_AnalyzeFileNeverRejects ==
    \A k \in 1..Len(calls) :
        calls[k].status # "pending" =>
            /\ calls[k].status = "fulfilled"
            /\ calls[k].answer.kind \in {"error", "empty", "invalid"} =>
                LET a == calls[k].value
                    ok == analyzeFile(calls[k].file, [kind |-> "object", obj |-> ObjHigh(calls[k].file)])
                IN  /\ a.filePath = calls[k].file.path
                    /\ a.importance = "low"
                    /\ a.complexity = 5
                    /\ a.functions = <<>> /\ a.classes = <<>> /\ a.dependencies = <<>>
                    /\ a.summary = <<calls[k].file.language, "file - analysis failed">>
                    /\ a.cacheKey = ok.value.cacheKey

\* A batch in which one call got text that is no JSON and another a rejected
\* completion call.
C4_Witness ==
    \E j, k \in 1..Len(calls) :
        /\ calls[j].status = "fulfilled" /\ calls[j].answer.kind = "invalid"
        /\ calls[k].status = "fulfilled" /\ calls[k].answer.kind = "error"

\* C5: when the batch loop has finished, the analyses list has one entry per
\* submitted file, min(n, 30) in all: the k-th entry stems from the k-th
\* submitted file (a stub included), and no file was submitted twice.
C5_OneAnalysisPerFile ==
    LoopFinished =>
        /\ Len(analyses) = Min(Len(input), 30)
        /\ Len(analyses) = Len(analyzerCalls)
        /\ \A k \in 1..Len(analyses) : analyses[k].cacheKey = generateCacheKey(analyzerCalls[k])
        /\ \A j, k \in 1..Len(analyzerCalls) : j # k => analyzerCalls[j] # analyzerCalls[k]

\* Two batches are done and the list holds a stub next to a parsed answer.
C5_Witness ==
    /\ LoopFinished
    /\ Len(analyses) > batchSize
    /\ \E j, k \in 1..Len(analyses) :
        /\ analyses[j].summary = <<analyzerCalls[j].language, "file - analysis failed">>
        /\ analyses[k].summary = <<"summary">>

\* C6: every analysis of the list, and every key of fileDocumentations, has
\* the path of a file that was submitted to the Analyzer in this run.
C6_NoOrphanAnalyses ==
    /\ \A k \in 1..Len(analyses) :
          Has(analyses[k], "filePath") /\ analyses[k].filePath \in AnalyzedPaths
    /\ result.kind = "document" =>
          DOMAIN result.document.fileDocumentations \subseteq AnalyzedPaths

\* C7: fileDocumentations of the returned document has one entry per analysed
\* file: as many entries as analyses, keyed by the analysed files' paths.
C7_OneEntryPerAnalysedFile ==
    result.kind = "document" =>
        /\ Cardinality(DOMAIN result.document.fileDocumentations) = Len(analyses)
        /\ DOMAIN result.document.fileDocumentations = AnalyzedPaths

\* C8: the Compiler returns a document for every analyses list the Analyzer
\* hands over and never throws: no run ends with an error raised in the
\* Compiler.
C8_CompilerNeverThrows ==
    pc = "threw" => result.error # "TypeError"

\* C9: every analysis that reaches the Compiler has an importance among
\* critical, high, medium, low and a complexity between 1 and 10.
C9_ImportanceAndComplexityInRange ==
    \A k \in 1..Len(analyses) :
        /\ Has(analyses[k], "importance") /\ analyses[k].importance \in Importances
        /\ Has(analyses[k], "complexity") /\ analyses[k].complexity \in 1..10

Weight(file) == priorityMap[determineCategory(file)]

InputFiles == {input[k] : k \in 1..Len(input)}
AnalyzedFiles == {analyzerCalls[k] : k \in 1..Len(analyzerCalls)}

CurrentBatch == {files[k] : k \in (i + 1)..Min(i + batchSize, Len(files))}

CompilationStarted == \E k \in 1..Len(events) : events[k].type = "compiling"

\* C11: batches never overlap: the Analyzer calls in flight all belong to the
\* batch the loop is at and are at most 3, no call is started while a call is
\* still in flight, and none is in flight once compilation has started or
\* the run has ended.
C11_BatchesNeverOverlap ==
    /\ [](/\ Cardinality(outstanding) <= 3
          /\ outstanding \subseteq CurrentBatch
          /\ (CompilationStarted \/ Terminated) => outstanding = {})
    /\ [][analyzerCalls' # analyzerCalls => outstanding = {}]_vars

\* The second batch is in flight, one of its three calls already settled.
C11_Witness ==
    /\ i >= batchSize
    /\ Len(calls) = batchSize
    /\ Cardinality(outstanding) = batchSize - 1

\* The submitted files whose analyzeFile promise did not reject at once.
Accepted == SelectSeq(analyzerCalls, LAMBDA f : Has(f, "content"))

\* C12: a rejected Analyzer call only removes its own file: when the loop has
\* finished every batch was submitted, the analyses list holds exactly the
\* files that did not reject, in order, and a run that threw did so in the
\* progress sink or in the Compiler, not because of the rejection.
C12_RejectionIsContained ==
    /\ LoopFinished =>
          /\ Len(analyzerCalls) = Min(Len(input), 30)
          /\ Len(analyses) = Len(Accepted)
          /\ \A k \in 1..Len(analyses) : analyses[k].cacheKey = generateCacheKey(Accepted[k])
    /\ pc = "threw" =>
          \/ ~sinkOpen
          \/ groupAnalysesThrows(analyses)
          \/ convertAnalysesToDocsThrows(analyses)

\* The first batch held a rejected call ahead of a fulfilled one, the second
\* batch ran, and the run returned a document.
C12_Witness ==
    /\ pc = "returned"
    /\ Len(analyzerCalls) > batchSize
    /\ Len(analyses) = Len(analyzerCalls) - 1
    /\ ~Has(analyzerCalls[1], "content")

\* The steps of the Compiler that can throw on the analyses it was handed.
CompilerThrows == groupAnalysesThrows(analyses) \/ convertAnalysesToDocsThrows(analyses)

\* C13: a failed overview or architecture completion call leaves its section
\* with the fallback sentence made of the repository's name and the detected
\* framework and never makes the run throw; each other section of the
\* returned document is what its own inputs give, whatever that call did.
C13_SynthesisFailureIsLocal ==
    /\ (synth.overview.status = "fulfilled" /\ Has(synth.overview, "answer")
           /\ synth.overview.answer.kind = "error") =>
          synth.overview.value =
              <<repositoryInfo.name, "is a modern", detectFramework(files),
                "application that provides robust functionality through a well-architected codebase.">>
    /\ (synth.architecture.status = "fulfilled" /\ synth.architecture.answer.kind = "error") =>
          synth.architecture.value =
              <<repositoryInfo.name, "follows a modern", detectFramework(files),
                "architecture with well-separated concerns and modular design.">>
    /\ (synth.architecture.status = "fulfilled" /\ synth.architecture.answer.kind = "text") =>
          synth.architecture.value = synth.architecture.answer.text
    /\ (synth.overview.status = "fulfilled" /\ Has(synth.overview, "answer")
           /\ synth.overview.answer.kind = "text") =>
          synth.overview.value = synth.overview.answer.text
    /\ pc = "returned" =>
          /\ result.document.overview = synth.overview.value
          /\ result.document.architecture = synth.architecture.value
          /\ result.document.apiReference = generateApiReference(groupAnalyses(analyses).api)
          /\ result.document.fileDocumentations = convertAnalysesToDocs(analyses)
    /\ (pc = "threw" /\ synth # NoSynth) => (~sinkOpen \/ CompilerThrows)

\* A document was returned although the overview call failed; the
\* architecture call had answered with a text.
C13_Witness ==
    /\ pc = "returned"
    /\ Has(synth.overview, "answer") /\ synth.overview.answer.kind = "error"
    /\ synth.architecture.answer.kind = "text"
    /\ result.document.architecture = <<"text of the completion">>

\* C14: the cache key of an analysis depends on the file's path and content
\* only: every settled analysis, parsed or stub, whatever the service
\* answered and whenever, carries the key made of the path with each
\* non-alphanumeric character replaced and the first 16 Base64 characters of
\* the first 1000 characters of the content.
C14_CacheKeyFromPathAndContent ==
    \A k \in 1..Len(calls) :
        calls[k].status = "fulfilled" =>
            LET path == calls[k].file.path
                content == calls[k].file.content
            IN  calls[k].value.cacheKey =
                    << "file",
                       [m \in 1..Len(path) |-> IF path[m] \in Alnum THEN path[m] ELSE "_"],
                       SubSeq(Base64(SubSeq(content, 1, Min(Len(content), 1000))), 1,
                              Min(Len(Base64(SubSeq(content, 1, Min(Len(content), 1000)))), 16)) >>

\* In one batch a stub and a parsed answer that came with a cache key of its
\* own.
C14_Witness ==
    \E j, k \in 1..Len(calls) :
        /\ calls[j].status = "fulfilled" /\ calls[j].answer.kind = "error"
        /\ calls[k].status = "fulfilled" /\ calls[k].answer.kind = "object"
        /\ Has(calls[k].answer.obj, "cacheKey")

Categorized == \E k \in 1..Len(events) : events[k].type = "categorized"

\* The pattern groups of the claim, in its order.
CategoryGroups ==
    << [label |-> "core", patterns |-> {<<"m","a","i","n",".">>, <<"i","n","d","e","x",".">>, <<"a","p","p",".">>}],
       [label |-> "api", patterns |-> {<<"/","a","p","i","/">>, <<"/","r","o","u","t","e","s","/">>, <<"r","o","u","t","e",".">>}],
       [label |-> "components", patterns |-> {<<"/","c","o","m","p","o","n","e","n","t","s","/">>, <<"/","u","i","/">>}],
       [label |-> "config", patterns |-> {<<"c","o","n","f","i","g">>, <<".","j","s","o","n">>, <<".","y","a","m","l">>}],
       [label |-> "utils", patterns |-> {<<"/","u","t","i","l","s","/">>, <<"/","l","i","b","/">>, <<"/","h","e","l","p","e","r","s","/">>}] >>

GroupMatches(g, path) == \E pat \in CategoryGroups[g].patterns : includes(toLowerCase(path), pat)

FirstMatch(path) ==
    IF \E g \in 1..Len(CategoryGroups) : GroupMatches(g, path)
    THEN CategoryGroups[CHOOSE g \in 1..Len(CategoryGroups) :
                            /\ GroupMatches(g, path)
                            /\ \A h \in 1..(g - 1) : ~GroupMatches(h, path)].label
    ELSE "other"

\* Every input file lies under exactly one key of the category map, that key
\* is one of the six labels, and it is the first matching group of the file.
CategoriesAreFirstMatches ==
    /\ DOMAIN categorizedFiles \subseteq Categories
    /\ \A f \in InputFiles :
          LET c == FirstMatch(f.path) IN
          /\ c \in DOMAIN categorizedFiles
          /\ \E k \in 1..Len(categorizedFiles[c]) : categorizedFiles[c][k] = f
          /\ \A d \in DOMAIN categorizedFiles \ {c} :
                \A k \in 1..Len(categorizedFiles[d]) : categorizedFiles[d][k] # f

\* C15: the step that categorizes the files gives every input file exactly
\* one of the six labels: the first group of the order core, api, components,
\* config, utils whose pattern occurs in the lower-cased path, or other when
\* none does.
C15_FirstMatchingCategory ==
    [][(~Categorized /\ Categorized') => CategoriesAreFirstMatches']_vars

\* A categorized list with a file whose path has upper-case letters and
\* matches the core and the API patterns, and one that matches the config and
\* the utils patterns.
C15_Witness ==
    /\ Categorized
    /\ \E f, g \in InputFiles :
          /\ f.path # toLowerCase(f.path)
          /\ GroupMatches(1, f.path) /\ GroupMatches(2, f.path)
          /\ GroupMatches(4, g.path) /\ GroupMatches(5, g.path)
          /\ "core" \in DOMAIN categorizedFiles /\ "config" \in DOMAIN categorizedFiles

\* The weights of the claim.
ClaimedWeight == [core |-> 100, api |-> 80, components |-> 60, utils |-> 40, config |-> 20, other |-> 10]

PositionIn(list, f) == CHOOSE k \in 1..Len(list) : list[k] = f

\* `sorted` holds the files of `original`, each once, by non-increasing
\* weight, files of equal weight in the order they have in `original`.
StablyPrioritized(original, sorted) ==
    /\ Len(sorted) = Len(original)
    /\ {sorted[k] : k \in 1..Len(sorted)} = {original[k] : k \in 1..Len(original)}
    /\ \A j, k \in 1..Len(sorted) :
          j < k =>
              LET wj == ClaimedWeight[FirstMatch(sorted[j].path)]
                  wk == ClaimedWeight[FirstMatch(sorted[k].path)]
              IN  /\ wj >= wk
                  /\ wj = wk => PositionIn(original, sorted[j]) < PositionIn(original, sorted[k])

\* C16: the step that prioritizes the files leaves a permutation of the input
\* in non-increasing order of category weight (core 100, api 80, components
\* 60, utils 40, config 20, other 10), files of equal weight in input order.
C16_StablePrioritization ==
    [][(~Categorized /\ Categorized') => StablyPrioritized(input, files')]_vars

\* A prioritized list that differs from the input and holds files of equal
\* weight as well as files of different weights.
C16_Witness ==
    /\ Categorized
    /\ files # input
    /\ \E j, k \in 1..Len(files) : j < k /\ Weight(files[j]) = Weight(files[k])
    /\ \E j, k \in 1..Len(files) : Weight(files[j]) > Weight(files[k])

\* The documentation row `e` holds what the saveDocumentation call `call` was
\* asked to save.
HoldsDataOf(e, call) ==
    /\ e.title = call.documentation.title
    /\ e.markdownContent = call.documentation.markdownContent
    /\ JsonParse(e.structuredData) = call.documentation.structuredData
    /\ e.filesAnalyzed = call.documentation.filesAnalyzed

\* C18: the store never holds two user rows of one GitHub user nor two
\* documentation rows of one (user, repository) pair; a documentation row
\* only changes in the step in which a save for its own pair lands, keeping
\* its id and taking that call's title, Markdown, structured data and file
\* count; every other row stays as it is.
C18_OneRecordPerPair ==
    /\ [](/\ \A u, v \in db.users : u.githubId = v.githubId => u = v
          /\ \A d, e \in db.documentations :
                (d.userId = e.userId /\ d.repositoryId = e.repositoryId) => d = e)
    /\ [][\A d \in db.documentations :
            \/ d \in db'.documentations
            \/ \E c \in 1..Len(saves) :
                 /\ saves[c].pc = "documentation" /\ saves'[c].pc = "returned"
                 /\ saves[c].user = d.userId /\ saves[c].repositoryData.id = d.repositoryId
                 /\ \E e \in db'.documentations :
                      /\ e.id = d.id /\ e.userId = d.userId /\ e.repositoryId = d.repositoryId
                      /\ HoldsDataOf(e, saves[c])]_vars

\* Two saves of one pair with different documentations have returned: one
\* row, with the id both calls returned and the data of one of them, and the
\* other's data gone.
C18_Witness ==
    /\ Len(saves) = 2
    /\ saves[1].pc = "returned" /\ saves[2].pc = "returned"
    /\ saves[1].githubId = saves[2].githubId
    /\ saves[1].repositoryData.id = saves[2].repositoryData.id
    /\ saves[1].documentation # saves[2].documentation
    /\ saves[1].result.id = saves[2].result.id
    /\ \E e \in db.documentations : db.documentations = {e} /\ HoldsDataOf(e, saves[2])

ProgressLess(a, b) == a.n * b.d < b.n * a.d

AnalyzingEvents == SelectSeq(events, LAMBDA e : e.type = "analyzing")

\* C19: the analyzing events carry strictly increasing progress values above
\* 10 and at most 70; when the batch loop over n >= 1 files has finished
\* there are ceil(min(n, 30) / 3) of them, one per batch, the batches held
\* min(n, 30) files, and the last value is 70.
C19_AnalyzingProgress ==
    /\ \A k \in 1..Len(AnalyzingEvents) :
          /\ ProgressLess(Progress(10, 1), AnalyzingEvents[k].progress)
          /\ ProgressLeq(AnalyzingEvents[k].progress, Progress(70, 1))
          /\ k > 1 => ProgressLess(AnalyzingEvents[k - 1].progress, AnalyzingEvents[k].progress)
    /\ (LoopFinished /\ Len(input) >= 1) =>
          /\ Len(AnalyzingEvents) = (Min(Len(input), 30) + 2) \div 3
          /\ Len(analyzerCalls) = Min(Len(input), 30)
          /\ AnalyzingEvents[Len(AnalyzingEvents)].progress.n
                = 70 * AnalyzingEvents[Len(AnalyzingEvents)].progress.d

\* More than 30 input files: ten batches, ten analyzing events, the last at
\* 70.
C19_Witness ==
    /\ LoopFinished
    /\ Len(input) > 30
    /\ Len(AnalyzingEvents) = 10
    /\ AnalyzingEvents[10].progress = Progress(70 * 30, 30)

\* The place of an event kind in the order of the stages.
StageRank == [started |-> 1, categorized |-> 2, analyzing |-> 3, compiling |-> 4, completed |-> 5]

InRange(p, lo, hi) == ProgressLeq(Progress(lo, 1), p) /\ ProgressLeq(p, Progress(hi, 1))

\* C20: the events of a run that returned a document go through the stages
\* started, categorized, analyzing, compiling, completed in this order, the
\* events of a stage next to each other; started and categorized events
\* carry progress in [0, 10], analyzing events in (10, 70], compiling events
\* in [70, 100]; and in every run Analyzer calls are started only when the
\* categorized event has been emitted and no compiling event has.
C20_StagesInOrder ==
    /\ [](pc = "returned" =>
            /\ events[1].type = "started"
            /\ events[Len(events)].type = "completed"
            /\ \A k \in 1..(Len(events) - 1) :
                  StageRank[events[k].type] <= StageRank[events[k + 1].type]
            /\ \A kind \in {"categorized", "compiling"} :
                  \E k \in 1..Len(events) : events[k].type = kind
            /\ Len(input) >= 1 => \E k \in 1..Len(events) : events[k].type = "analyzing"
            /\ \A k \in 1..Len(events) :
                  /\ events[k].type \in {"started", "categorized"} => InRange(events[k].progress, 0, 10)
                  /\ events[k].type = "analyzing" =>
                        /\ InRange(events[k].progress, 10, 70)
                        /\ events[k].progress.n # 10 * events[k].progress.d
                  /\ events[k].type = "compiling" => InRange(events[k].progress, 70, 100))
    /\ [][analyzerCalls' # analyzerCalls => (Categorized' /\ ~CompilationStarted')]_vars

\* A returned run over two batches whose events show all five stages.
C20_Witness ==
    /\ pc = "returned"
    /\ Len(analyzerCalls) > batchSize
    /\ \A kind \in DOMAIN StageRank : \E k \in 1..Len(events) : events[k].type = kind

\* What the merge of a settled batch appends: for each call that was
\* answered, in the order of the batch, the analysis analyzeFile makes of
\* that call's file and that call's answer.
RECURSIVE BatchValues(_)
BatchValues(cs) ==
    IF cs = <<>> THEN <<>>
    ELSE (IF Has(Head(cs), "answer") THEN <<analyzeFile(Head(cs).file, Head(cs).answer).value>> ELSE <<>>)
         \o BatchValues(Tail(cs))

\* The analyses list of a service that gives one fixed answer per file.
ScriptedAnalyses ==
    [k \in 1..maxFiles(files) |->
        analyzeFile(files[k], CHOOSE resp \in Responses(service, files[k]) : TRUE).value]

\* C21: the analyses list changes only in a step that finds every call of the
\* current batch settled, and then grows by that batch's results in the
\* batch's file order, each result a function of its file and its answer and
\* not of the order in which the calls completed; with one fixed answer per
\* file the list a returned run ends with is the one list those answers
\* give, and the returned document is built from it.
C21_MergeAfterBatchSettles ==
    [][/\ analyses' # analyses =>
            /\ pc = "batchAwait"
            /\ outstanding = {}
            /\ \A k \in 1..Len(calls) :
                  calls[k].status # "pending" /\ calls[k].file = files[i + k]
            /\ analyses' = analyses \o BatchValues(calls)
       /\ (pc # "returned" /\ pc' = "returned") =>
            /\ service # "any" => analyses' = ScriptedAnalyses'
            /\ result'.document.keyComponents = generateKeyComponents(analyses')
            /\ result'.document.fileDocumentations = convertAnalysesToDocs(analyses')]_vars

\* A first batch of three calls with different answers has been merged, the
\* list holding the three results in file order, and the next batch runs.
C21_Witness ==
    /\ pc = "batchAwait"
    /\ i = batchSize
    /\ Len(analyses) = batchSize
    /\ \A k \in 1..batchSize : analyses[k].cacheKey = generateCacheKey(files[k])
    /\ \E j, k \in 1..batchSize : j < k /\ analyses[j].summary # analyses[k].summary

\* C22: a run makes at most two synthesis completion calls, one for the
\* overview and one for the architecture, and the one for the overview only
\* when an analysis has importance 'critical'; the API reference and the
\* getting-started section of a returned document are computed from the
\* analyses and the context alone; so the completion calls of a run, per-file
\* and synthesis together, number at most min(n, 30) + 2.
C22_AtMostTwoSynthesisCalls ==
    /\ synthCalls \subseteq {"overview", "architecture"}
    /\ "overview" \in synthCalls =>
          \E k \in 1..Len(analyses) :
              Has(analyses[k], "importance") /\ analyses[k].importance = "critical"
    /\ Len(analyzerCalls) + Cardinality(synthCalls) <= Min(Len(input), 30) + 2
    /\ pc = "returned" =>
          /\ result.document.apiReference = generateApiReference(groupAnalyses(analyses).api)
          /\ result.document.gettingStarted =
                generateGettingStarted(ProjectContext(repositoryInfo, files))

\* A returned run over more files than the cap that made 30 per-file calls
\* and both synthesis calls.
C22_Witness ==
    /\ pc = "returned"
    /\ Len(input) > 30
    /\ Len(analyzerCalls) = 30
    /\ synthCalls = {"overview", "architecture"}

\* C23: the prompt of every per-file call carries the file's content whole
\* when it has at most 8000 characters, and its first 8000 characters
\* followed by the text '\n... (truncated)' when it has more; a file with
\* more than 8000 characters is analysed like any other, the call made on it
\* and its analysis in the list once its batch is merged.
C23_PromptTruncation ==
    [][calls' # calls =>
          \A k \in 1..Len(calls') :
              LET content == calls'[k].file.content
                  carried == calls'[k].prompt.content
              IN  /\ Len(content) <= 8000 => carried = content
                  /\ Len(content) > 8000 =>
                        /\ Len(carried) = 8000 + 16
                        /\ \A c \in 1..8000 : carried[c] = content[c]
                        /\ SubSeq(carried, 8001, Len(carried)) = TruncationMarker
                  /\ calls'[k].prompt.path = calls'[k].file.path]_vars
    /\ [](LoopFinished =>
            /\ Len(analyzerCalls) = Len(input)
            /\ Len(analyses) = Len(input)
            /\ \A k \in 1..Len(analyses) : analyses[k].cacheKey = generateCacheKey(files[k]))

\* The analysis of a file of 8001 characters, made from the answer of the
\* completion service, is in the list.
C23_Witness ==
    /\ LoopFinished
    /\ \E k \in 1..Len(analyses) :
          /\ Len(files[k].content) = 8001
          /\ analyses[k].cacheKey = generateCacheKey(files[k])
          /\ analyses[k].summary = <<"summary">>

CriticalTier == SelectSeq(analyses, LAMBDA a : a.importance = "critical")

\* C24: for the analyses list the Compiler is handed, metrics.complexity is
\* 'Low' when the mean complexity of all analyses is at most 4, 'Medium'
\* when it is above 4 and at most 7, and 'High' otherwise (also when the list
\* is empty and has no mean); metrics.maintainability is 'Excellent',
\* 'Good', 'Fair' or 'Needs Improvement' as the mean complexity of the
\* critical-tier analyses, or 5 when there is none, is at most 3, at most 5,
\* at most 7, or above.
C24_MetricsBuckets ==
    pc = "metrics" =>
        LET n == Len(analyses)
            total == SumComplexity(analyses)
            nc == Len(CriticalTier)
            \* the mean of the critical tier as a fraction tc / dc
            tc == IF nc = 0 THEN 5 ELSE SumComplexity(CriticalTier)
            dc == IF nc = 0 THEN 1 ELSE nc
        IN  /\ result.metrics.complexity = "Low" <=> (n > 0 /\ total <= 4 * n)
            /\ result.metrics.complexity = "Medium" <=> (n > 0 /\ total > 4 * n /\ total <= 7 * n)
            /\ result.metrics.complexity = "High" <=> (n = 0 \/ total > 7 * n)
            /\ result.metrics.maintainability = "Excellent" <=> tc <= 3 * dc
            /\ result.metrics.maintainability = "Good" <=> (tc > 3 * dc /\ tc <= 5 * dc)
            /\ result.metrics.maintainability = "Fair" <=> (tc > 5 * dc /\ tc <= 7 * dc)
            /\ result.metrics.maintainability = "Needs Improvement" <=> tc > 7 * dc

\* Metrics of a list whose mean is exactly 4 while its critical tier's mean
\* is exactly 5: 'Low' and 'Good', the upper ends of two buckets.
C24_Witness ==
    /\ pc = "metrics"
    /\ Len(analyses) = 3
    /\ SumComplexity(analyses) = 4 * 3
    /\ Len(CriticalTier) = 2
    /\ SumComplexity(CriticalTier) = 5 * 2
    /\ result.metrics = [complexity |-> "Low", maintainability |-> "Good"]

\* The pipeline events that reached the GET stream: the handler's onProgress
\* forwards each event through sendEvent; when sendEvent threw (the client
\* had left), neither the event it was called with nor the error event of
\* the pipeline's catch block was enqueued.
Forwarded ==
    LET through == IF result.kind = "error" /\ result.error = "SinkError"
                   THEN SubSeq(events, 1, Len(events) - 2)
                   ELSE events
    IN  [k \in 1..Len(through) |->
            [type |-> "progress", stage |-> through[k].type, progress |-> through[k].progress]]

\* Everything enqueued on the GET stream, in order: the handler's first
\* event, the forwarded pipeline events, the handler's later events.
StreamEvents ==
    IF sent = <<>> THEN <<>> ELSE <<Head(sent)>> \o Forwarded \o Tail(sent)

TerminalEvents == SelectSeq(StreamEvents, LAMBDA e : e.type \in {"complete", "error"})

StreamOpened == request.method = "GET" /\ response.status = 200

\* C25: when generateDocumentation() of a GET stream has ended, the stream
\* carries exactly one event of type 'complete' or 'error', that event is
\* its last, and controller.close() was called exactly once; close() is
\* never called twice.
C25_OneTerminalEventThenClose ==
    /\ closes <= 1
    /\ (StreamOpened /\ hpc \in {"done", "crashed"}) =>
          /\ closes = 1
          /\ Len(TerminalEvents) = 1
          /\ StreamEvents[Len(StreamEvents)].type \in {"complete", "error"}

\* C26: on a GET stream that ended with the 'complete' event, every event's
\* progress is at least the progress of the event sent before it, from the
\* 'Fetching repository data...' event on, the forwarded pipeline events and
\* the handler's 'Generating markdown...' and 'Saving documentation...'
\* events included.
C26_StreamProgressNonDecreasing ==
    (StreamOpened /\ hpc = "done" /\ StreamEvents[Len(StreamEvents)].type = "complete") =>
        \A k \in 1..(Len(StreamEvents) - 1) :
            ProgressLeq(StreamEvents[k].progress, StreamEvents[k + 1].progress)

\* The pipeline or the Markdown generation of the request threw.
GenerationFailed ==
    \/ pc = "threw"
    \/ pc = "returned" /\ generateMarkdownThrows(markdownModule, result.document)

\* How a request that failed ends: POST answers 500; the GET stream carries
\* no 'complete' event and, when the client is still there, ends with an
\* 'error' event and one close().
ErrorOutcome ==
    IF request.method = "POST" THEN response.status = 500
    ELSE /\ \A k \in 1..Len(StreamEvents) : StreamEvents[k].type # "complete"
         /\ sinkOpen => (StreamEvents[Len(StreamEvents)].type = "error" /\ closes = 1)

\* C27: a request calls saveDocumentation at most once, and only when
\* generateDocumentationStream has returned a document and the Markdown was
\* generated from it, which the call then carries; when the pipeline or the
\* Markdown generation threw, saveDocumentation is not called, the store is
\* untouched, and the request ends with an error outcome.
C27_SaveOnlyAfterGeneration ==
    /\ Len(saves) <= 1
    /\ saves # <<>> =>
          /\ pc = "returned" /\ result.kind = "document"
          /\ ~generateMarkdownThrows(markdownModule, result.document)
          /\ hpc \in {"saving", "done", "crashed"}
          /\ saves[1].documentation.structuredData = result.document
          /\ saves[1].documentation.markdownContent =
                generateMarkdownDocumentation(result.document, repositoryInfo.name,
                                              repositoryInfo.fullName, Len(files))
    /\ GenerationFailed =>
          /\ saves = <<>>
          /\ db = EmptyDb
          /\ hpc \in {"done", "crashed"} => ErrorOutcome

\* A POST request whose one saveDocumentation call returned: the row is in
\* the store and the answer is 200.
C27_Witness ==
    /\ request.method = "POST"
    /\ hpc = "done"
    /\ response.status = 200
    /\ Len(saves) = 1 /\ saves[1].pc = "returned"
    /\ \E d \in db.documentations : d.id = response.documentationId

\* C28: when generateDocumentationStream has returned or thrown, the
\* caller's file list holds the files it held before the call, in the same
\* order and with the same fields.
C28_InputNotModified ==
    Terminated => files = input

\* C29: the filesAnalyzed number a handler hands to saveDocumentation, and
\* the one it returns in the POST answer or in the 'complete' event of the
\* GET stream, is the length of the analyses list the Compiler was handed.
C29_FilesAnalyzedIsAnalysedCount ==
    /\ saves # <<>> => saves[1].documentation.filesAnalyzed = Len(analyses)
    /\ (request.method = "POST" /\ response.status = 200) =>
          response.filesAnalyzed = Len(analyses)
    /\ (StreamOpened /\ hpc = "done" /\ sent[Len(sent)].type = "complete") =>
          sent[Len(sent)].data.filesAnalyzed = Len(analyses)

\* The rows with id `id` whose owner is the user with GitHub id `githubId`.
OwnedRows(d, id, githubId) ==
    {o \in d.documentations :
        o.id = id /\ \E u \in d.users : u.githubId = githubId /\ u.id = o.userId}

\* C30: a deleteDocumentation(id, githubId) call that returns true has
\* removed the row with that id owned by the user with that githubId and
\* nothing else; one that returns false has left the store as it was, and
\* false is what it returns when the user, the id or the ownership does not
\* match; no other step removes or changes a row; and every record that
\* getUserDocumentations or getDocumentationById returns is made of a row
\* owned by the user with the githubId of the call.
C30_DeleteAndReadOnlyOwnRows ==
    [][\A c \in 1..Len(accesses) :
          (accesses[c].pc # "returned" /\ accesses'[c].pc = "returned") =>
              LET call == accesses'[c]
                  owned == OwnedRows(db, call.id, call.githubId)
              IN  IF call.op = "delete"
                  THEN /\ call.result.value => (owned # {} /\ db' = [db EXCEPT !.documentations = @ \ owned])
                       /\ ~call.result.value => db' = db
                       /\ owned = {} => ~call.result.value
                  ELSE /\ db' = db
                       /\ \A doc \in call.result.docs :
                             \E o \in db.documentations :
                                 /\ o.id = doc.id
                                 /\ o \in OwnedRows(db, o.id, call.githubId)
                                 /\ call.op = "get" => o.id = call.id]_vars
    /\ [][db' # db => \E c \in 1..Len(accesses) :
                          /\ accesses[c].op = "delete" /\ accesses[c].pc = "query"
                          /\ accesses'[c].pc = "returned"]_vars

\* One user's delete of another user's documentation returned false and the
\* row is still there, and the owner's delete of the same row returned true
\* and removed it.
C30_Witness ==
    /\ Len(accesses) = 2
    /\ accesses[1].op = "delete" /\ accesses[2].op = "delete"
    /\ accesses[1].id = accesses[2].id
    /\ accesses[1].githubId = "gh-2" /\ accesses[2].githubId = "gh-1"
    /\ accesses[1].pc = "returned" /\ accesses[1].user # <<>> /\ ~accesses[1].result.value
    /\ accesses[2].pc = "returned" /\ accesses[2].result.value
    /\ \A o \in db.documentations : o.id # accesses[1].id
    /\ db.documentations # {}

====
